---- MODULE Spec2Model ----
(***************************************************************************)
(* SIAC Assistant: OAuth 2.1 authorization server (src/auth_server) and    *)
(* the resource server / tool gateway (src/server/main.py).                *)
(*                                                                         *)
(* Time is counted in minutes on the authorization server (utcnow) and in  *)
(* seconds inside the token verifier (epoch timestamps).                   *)
(***************************************************************************)
EXTENDS Integers, Sequences, FiniteSets, TLC

\* Python's None, where a string is expected
None == "None"
\* Python's None, where a dict is expected
NoDict == [none |-> TRUE]
\* an absent string (None) where the code expects a str held as characters
NoStr == <<None>>

----------------------------------------------------------------------------
\* Bounds of the model

\* authorization codes issued in one behaviour
MaxCodes == 1
\* POST /oauth/token requests in one behaviour
MaxReqs == 2
\* clock advances in one behaviour
MaxTicks == 2

----------------------------------------------------------------------------
\* Program constants

\* timedelta(minutes=10)
CodeTTL == 10
\* timedelta(hours=24), in minutes
TokenTTL == 1440
\* expires_in = 86400
ExpiresIn == 86400
\* scope used when none is given
DefaultScope == "siac.user.full_access"


----------------------------------------------------------------------------
\* Inputs of the handlers

Emails == {"admin@siac.com", "usuario@cliente1.com"}
Passwords == {"admin123", "demo123"}
ClientIds == {"c1"}
\* redirect_uri values of login forms and of token requests
LoginRedirectUris == {"https://cb"}
\* scope values of login forms and of token requests
Scopes == {"siac.user.full_access", "siac.user.read"}
RequestScopes == {None, "siac.admin"}

\* f"auth_code_{uuid.uuid4().hex[:16]}": the code of the n-th successful login
AuthCodeName(n) == <<"auth_code_1", "auth_code_2", "auth_code_3", "auth_code_4",
                     "auth_code_5", "auth_code_6", "auth_code_7", "auth_code_8",
                     "auth_code_9", "auth_code_a", "auth_code_b", "auth_code_c">>[n]
\* f"refresh_token_{uuid.uuid4().hex[:32]}" of request n
RefreshTokenName(n) == <<"refresh_token_", n>>

\* characters of "access_token_"
AccessTokenPrefix == <<"a","c","c","e","s","s","_","t","o","k","e","n","_">>
\* f"access_token_{uuid.uuid4().hex[:32]}" of request n: a string, as its
\* characters, with one hexadecimal digit standing for the uuid
AccessTokenName(n) ==
    AccessTokenPrefix
    \o <<(<<"1","2","3","4","5","6","7","8","9","a","b","c","d","e","f">>)[n]>>

----------------------------------------------------------------------------
VARIABLES
    users,                \* UserDatabase.users
    authorization_codes,  \* UserDatabase.authorization_codes
    active_tokens,        \* UserDatabase.active_tokens
    now,                  \* datetime.utcnow(), minutes
    ticks,                \* number of clock advances so far
    loginResp,            \* response of the last POST /oauth/login
    tokenReq,             \* the POST /oauth/token requests: position (pc), form
                          \* while the handler runs (body), response (resp) and
                          \* history of its get_authorization_code call (call)
    issued,               \* history: record stored for every code ever issued
    consumed,             \* history: codes that get_authorization_code popped
    minted,               \* history: for every token ever stored, its record,
                          \* the code it was exchanged for and the request
    evicted,              \* history: tokens get_token_info removed as expired
    lastInfo,             \* history: the last get_token_info call
    revoked,              \* history: tokens whose revocation was asked for, of
                          \* UserDatabase.revoke_token or of POST /oauth/revoke
    lastRevoke,           \* history: the last revoke_token call or POST
                          \* /oauth/revoke request
    gateway,              \* resource server: the last request and its outcome
    browser               \* the user agent of one authorization attempt

authVars == <<users, authorization_codes, active_tokens, now, ticks,
              loginResp, tokenReq, issued, consumed, minted, evicted, lastInfo,
              revoked, lastRevoke>>

vars == <<authVars, gateway, browser>>

Reqs == 1..MaxReqs

\* UserDatabase.__init__: the three provisioned users
InitUsers ==
    [u \in {"user_001", "user_002", "user_003"} |->
        CASE u = "user_001" -> [email |-> "admin@siac.com", password |-> "admin123",
                                client_id |-> "cliente_siac_principal", active |-> TRUE]
          [] u = "user_002" -> [email |-> "usuario@cliente1.com", password |-> "demo123",
                                client_id |-> "cliente_001", active |-> TRUE]
          [] u = "user_003" -> [email |-> "manager@cliente2.com", password |-> "manager123",
                                client_id |-> "cliente_002", active |-> TRUE]]

\* the empty dict
EmptyMap == [x \in {} |-> None]

\* dict with key k set to v
Put(m, k, v) == [x \in DOMAIN m \cup {k} |-> IF x = k THEN v ELSE m[x]]
\* dict without key k
Drop(m, k) == [x \in DOMAIN m \ {k} |-> m[x]]

----------------------------------------------------------------------------
\* UserDatabase (src/auth_server/database.py)

\* iteration order of self.users.items()
UserOrder == <<"user_001", "user_002", "user_003">>

\* the loop without the test of the active flag
RECURSIVE AuthenticateFrom_ignores_active(_, _, _, _)
AuthenticateFrom_ignores_active(us, email, password, i) ==
    IF i > Len(UserOrder) THEN NoDict
    ELSE LET user_id == UserOrder[i] IN
         IF user_id \in DOMAIN us /\ us[user_id].email = email
                                  /\ us[user_id].password = password
         THEN [user_id |-> user_id] @@ us[user_id]
         ELSE AuthenticateFrom_ignores_active(us, email, password, i + 1)

\* the loop comparing the email only
RECURSIVE AuthenticateFrom_any_password(_, _, _, _)
AuthenticateFrom_any_password(us, email, password, i) ==
    IF i > Len(UserOrder) THEN NoDict
    ELSE LET user_id == UserOrder[i] IN
         IF user_id \in DOMAIN us /\ us[user_id].email = email
         THEN IF us[user_id].active
              THEN [user_id |-> user_id] @@ us[user_id]
              ELSE NoDict
         ELSE AuthenticateFrom_any_password(us, email, password, i + 1)

\* the loop of authenticate_user, from position i of the iteration
RECURSIVE AuthenticateFrom(_, _, _, _)
AuthenticateFrom(us, email, password, i) ==
    IF i > Len(UserOrder) THEN NoDict
    ELSE LET user_id == UserOrder[i] IN
         IF user_id \in DOMAIN us /\ us[user_id].email = email
                                  /\ us[user_id].password = password
         THEN IF us[user_id].active
              THEN [user_id |-> user_id] @@ us[user_id]
              ELSE NoDict
         ELSE AuthenticateFrom(us, email, password, i + 1)

authenticate_user(us, email, password) == AuthenticateFrom(us, email, password, 1)

\* authenticate_user writing user_id into the record it found and returning
\* that record itself
UsersAfterAuthenticate_in_place(us, email, password) ==
    LET user == authenticate_user(us, email, password) IN
    IF user = NoDict THEN us
    ELSE [us EXCEPT ![user.user_id] = [user_id |-> user.user_id] @@ us[user.user_id]]

\* self.users after authenticate_user: the result is a new dict built from
\* the record, the record is only read
UsersAfterAuthenticate(us, email, password) == us

get_user_by_id(us, user_id) ==
    IF user_id \in DOMAIN us THEN [user_id |-> user_id] @@ us[user_id] ELSE NoDict

\* store_authorization_code with client_id in the place of user_id
store_authorization_code_swapped(codes, code, user_id, client_id, redirect_uri, scope, code_challenge, t) ==
    Put(codes, code, [user_id |-> client_id, client_id |-> client_id,
                      redirect_uri |-> redirect_uri, scope |-> scope,
                      code_challenge |-> code_challenge,
                      created_at |-> t, expires_at |-> t + CodeTTL])

\* the stores after store_authorization_code at time t
store_authorization_code(codes, code, user_id, client_id, redirect_uri, scope, code_challenge, t) ==
    Put(codes, code, [user_id |-> user_id, client_id |-> client_id,
                      redirect_uri |-> redirect_uri, scope |-> scope,
                      code_challenge |-> code_challenge,
                      created_at |-> t, expires_at |-> t + CodeTTL])

\* get_authorization_code reading with get() instead of pop()
get_authorization_code_peek(codes, code, t) ==
    [store  |-> codes,
     result |-> IF code \in DOMAIN codes
                THEN IF t > codes[code].expires_at THEN NoDict ELSE codes[code]
                ELSE NoDict]

\* get_authorization_code removing the code only once it has expired, as
\* get_token_info does for tokens
get_authorization_code_lazy(codes, code, t) ==
    IF code \in DOMAIN codes
    THEN IF t > codes[code].expires_at
         THEN [store |-> Drop(codes, code), result |-> NoDict]
         ELSE [store |-> codes, result |-> codes[code]]
    ELSE [store |-> codes, result |-> NoDict]

\* get_authorization_code comparing with >= instead of >
get_authorization_code_early(codes, code, t) ==
    [store  |-> Drop(codes, code),
     result |-> IF code \in DOMAIN codes
                THEN IF t >= codes[code].expires_at THEN NoDict ELSE codes[code]
                ELSE NoDict]

\* get_authorization_code at time t: the store it leaves and what it returns
get_authorization_code(codes, code, t) ==
    [store  |-> Drop(codes, code),
     result |-> IF code \in DOMAIN codes
                THEN IF t > codes[code].expires_at THEN NoDict ELSE codes[code]
                ELSE NoDict]

\* store_token with the lifetime of a code
store_token_code_ttl(tokens, token, user_id, client_id, scope, t) ==
    Put(tokens, token, [user_id |-> user_id, client_id |-> client_id,
                        scope |-> scope,
                        created_at |-> t, expires_at |-> t + CodeTTL])

\* the token store after store_token at time t
store_token(tokens, token, user_id, client_id, scope, t) ==
    Put(tokens, token, [user_id |-> user_id, client_id |-> client_id,
                        scope |-> scope,
                        created_at |-> t, expires_at |-> t + TokenTTL])

\* get_token_info leaving an expired token in the store
get_token_info_keep(tokens, us, token, t) ==
    IF token \in DOMAIN tokens
    THEN IF t > tokens[token].expires_at
         THEN [store |-> tokens, result |-> NoDict]
         ELSE LET user_info == get_user_by_id(us, tokens[token].user_id) IN
              [store  |-> tokens,
               result |-> IF user_info # NoDict
                          THEN tokens[token] @@ [user |-> user_info]
                          ELSE NoDict]
    ELSE [store |-> tokens, result |-> NoDict]

\* get_token_info removing every expired token, not only the one asked for
get_token_info_purge(tokens, us, token, t) ==
    LET live == [x \in {y \in DOMAIN tokens : ~(t > tokens[y].expires_at)} |-> tokens[x]] IN
    IF token \in DOMAIN live
    THEN LET user_info == get_user_by_id(us, live[token].user_id) IN
         [store  |-> live,
          result |-> IF user_info # NoDict
                     THEN live[token] @@ [user |-> user_info]
                     ELSE NoDict]
    ELSE [store |-> live, result |-> NoDict]

\* get_token_info at time t: the store it leaves and what it returns
get_token_info(tokens, us, token, t) ==
    IF token \in DOMAIN tokens
    THEN IF t > tokens[token].expires_at
         THEN [store |-> Drop(tokens, token), result |-> NoDict]
         ELSE LET user_info == get_user_by_id(us, tokens[token].user_id) IN
              [store  |-> tokens,
               result |-> IF user_info # NoDict
                          THEN tokens[token] @@ [user |-> user_info]
                          ELSE NoDict]
    ELSE [store |-> tokens, result |-> NoDict]

\* revoke_token leaving the store as it is
revoke_token_keep(tokens, token) == tokens

\* the token store after revoke_token
revoke_token(tokens, token) == Drop(tokens, token)

----------------------------------------------------------------------------
\* Authorization server handlers (src/auth_server/main.py)

\* a request not yet received
IdleReq == [pc |-> "idle", body |-> NoDict, call |-> NoDict, resp |-> NoDict]

\* HTTPException(status_code, detail) as rendered by http_exception_handler:
\* the HTTP status and the error, status_code and timestamp of the content
HttpError(status_code, detail) ==
    [status |-> status_code, error |-> detail, status_code |-> status_code,
     timestamp |-> now]

\* the empty stores and no request made yet
InitStores ==
    /\ authorization_codes = EmptyMap
    /\ active_tokens = EmptyMap
    /\ now = 0
    /\ ticks = 0
    /\ loginResp = NoDict
    /\ tokenReq = [r \in Reqs |-> IdleReq]
    /\ issued = EmptyMap
    /\ consumed = {}
    /\ minted = EmptyMap
    /\ evicted = {}
    /\ lastInfo = NoDict
    /\ revoked = {}
    /\ lastRevoke = NoDict
    /\ gateway = NoDict
    /\ browser = [pc |-> "START"]

Init ==
    /\ users = InitUsers
    /\ InitStores

\* time passes
Tick(d) ==
    /\ ticks < MaxTicks
    /\ now' = now + d
    /\ ticks' = ticks + 1
    /\ UNCHANGED <<users, authorization_codes, active_tokens, loginResp,
                   tokenReq, issued, consumed, minted, evicted, lastInfo,
                   revoked, lastRevoke, gateway, browser>>

\* URLs are a path and a query; the query is a sequence of text pieces: the
\* names and values the code treats as opaque are one piece each, "=" and "&"
\* and the characters of state and of the PKCE values are one piece each.

\* {v} in an f-string: None is printed as the text None
FormatValue(v) == IF v = NoStr THEN <<"N", "o", "n", "e">> ELSE v

\* the truth value of an optional string
Truthy(v) == v # NoStr /\ v # <<>>

\* login: the URL of the redirect back to the login form
error_url(client_id, redirect_uri, response_type, scope, state, code_challenge, code_challenge_method) ==
    [path |-> "/oauth/authorize",
     query |-> <<"response_type", "=", response_type, "&", "client_id", "=", client_id,
                 "&", "redirect_uri", "=", redirect_uri, "&", "scope", "=", scope,
                 "&", "state", "=">> \o FormatValue(state)
               \o <<"&", "error", "=", "invalid_credentials">>
               \o (IF Truthy(code_challenge)
                   THEN <<"&", "code_challenge", "=">> \o code_challenge
                        \o <<"&", "code_challenge_method", "=">>
                        \o FormatValue(code_challenge_method)
                   ELSE <<>>)]

\* login: the URL of the redirect to the client with the code
redirect_url(redirect_uri, authorization_code, state) ==
    [path |-> redirect_uri,
     query |-> <<"code", "=", authorization_code>>
               \o (IF Truthy(state) THEN <<"&", "state", "=">> \o state ELSE <<>>)]

\* the last failed login before the one being answered
LastFailure ==
    IF loginResp = NoDict THEN NoDict
    ELSE IF loginResp.status = 303
    THEN [request |-> loginResp.request, status |-> loginResp.status,
          location |-> loginResp.location]
    ELSE loginResp.before

\* login answering a response_type other than code like a failed login
login_code_only(email, password, client_id, redirect_uri, response_type, scope, state, code_challenge, code_challenge_method) ==
    LET user == authenticate_user(users, email, password)
        request == [email |-> email, password |-> password, client_id |-> client_id,
                    redirect_uri |-> redirect_uri, response_type |-> response_type,
                    scope |-> scope, state |-> state, code_challenge |-> code_challenge,
                    code_challenge_method |-> code_challenge_method]
    IN
    /\ Cardinality(DOMAIN issued) < MaxCodes
    /\ IF user = NoDict \/ response_type # "code"
       THEN /\ loginResp' =
                   [status |-> 303,
                    location |-> error_url(client_id, redirect_uri, response_type, scope,
                                           state, code_challenge, code_challenge_method),
                    request |-> request, before |-> LastFailure]
            /\ UNCHANGED <<authorization_codes, issued>>
       ELSE LET authorization_code == AuthCodeName(Cardinality(DOMAIN issued) + 1) IN
            /\ authorization_codes' =
                   store_authorization_code(authorization_codes, authorization_code,
                                            user.user_id, client_id, redirect_uri,
                                            scope, code_challenge, now)
            /\ issued' = Put(issued, authorization_code,
                             authorization_codes'[authorization_code])
            /\ loginResp' = [status |-> 302,
                             location |-> redirect_url(redirect_uri, authorization_code, state),
                             request |-> request, before |-> LastFailure]
    /\ users' = UsersAfterAuthenticate(users, email, password)
    /\ UNCHANGED <<active_tokens, now, ticks, tokenReq, consumed,
                   minted, evicted, lastInfo, revoked, lastRevoke, gateway>>

\* POST /oauth/login
login(email, password, client_id, redirect_uri, response_type, scope, state, code_challenge, code_challenge_method) ==
    LET user == authenticate_user(users, email, password)
        request == [email |-> email, password |-> password, client_id |-> client_id,
                    redirect_uri |-> redirect_uri, response_type |-> response_type,
                    scope |-> scope, state |-> state, code_challenge |-> code_challenge,
                    code_challenge_method |-> code_challenge_method]
    IN
    /\ Cardinality(DOMAIN issued) < MaxCodes
    /\ IF user = NoDict
       THEN /\ loginResp' =
                   [status |-> 303,
                    location |-> error_url(client_id, redirect_uri, response_type, scope,
                                           state, code_challenge, code_challenge_method),
                    request |-> request, before |-> LastFailure]
            /\ UNCHANGED <<authorization_codes, issued>>
       ELSE LET authorization_code == AuthCodeName(Cardinality(DOMAIN issued) + 1) IN
            /\ authorization_codes' =
                   store_authorization_code(authorization_codes, authorization_code,
                                            user.user_id, client_id, redirect_uri,
                                            scope, code_challenge, now)
            /\ issued' = Put(issued, authorization_code,
                             authorization_codes'[authorization_code])
            /\ loginResp' = [status |-> 302,
                             location |-> redirect_url(redirect_uri, authorization_code, state),
                             request |-> request, before |-> LastFailure]
    /\ users' = UsersAfterAuthenticate(users, email, password)
    /\ UNCHANGED <<active_tokens, now, ticks, tokenReq, consumed,
                   minted, evicted, lastInfo, revoked, lastRevoke, gateway>>

\* RedirectResponse: the Location header has the characters outside the safe
\* set percent-encoded; of the characters in use here that is the space
Quote(q) == [i \in 1..Len(q) |-> IF q[i] = " " THEN "%20" ELSE q[i]]

\* query string decoding of a name or value: "+" and %20 are a space
Unquote(v) == [i \in 1..Len(v) |-> IF v[i] \in {"+", "%20"} THEN " " ELSE v[i]]

\* the pieces of a query between "&"
RECURSIVE SplitAmpFrom(_, _, _, _)
SplitAmpFrom(q, i, cur, acc) ==
    IF i > Len(q) THEN Append(acc, cur)
    ELSE IF q[i] = "&"
         THEN SplitAmpFrom(q, i + 1, <<>>, Append(acc, cur))
         ELSE SplitAmpFrom(q, i + 1, Append(cur, q[i]), acc)

\* position of the first "=" of a piece, 0 when there is none
RECURSIVE FirstEquals(_, _)
FirstEquals(piece, i) ==
    IF i > Len(piece) THEN 0 ELSE IF piece[i] = "=" THEN i ELSE FirstEquals(piece, i + 1)

\* one name=value piece as a pair; blank values are kept
QueryPair(piece) ==
    LET e == FirstEquals(piece, 1) IN
    IF e = 0 THEN [name |-> Unquote(piece), value |-> <<>>]
    ELSE [name |-> Unquote(SubSeq(piece, 1, e - 1)),
          value |-> Unquote(SubSeq(piece, e + 1, Len(piece)))]

\* request.query_params: the pairs of a query, in order, empty pieces dropped
ParseQuery(q) ==
    LET pieces == SplitAmpFrom(q, 1, <<>>, <<>>)
        kept == SelectSeq(pieces, LAMBDA piece : piece # <<>>)
    IN [i \in 1..Len(kept) |-> QueryPair(kept[i])]

\* name in params, for params = dict(request.query_params)
HasParam(params, name) == \E i \in 1..Len(params) : params[i].name = <<name>>

\* params[name]: the last value given for name
GetParam(params, name) ==
    LET i == CHOOSE i \in 1..Len(params) :
                 /\ params[i].name = <<name>>
                 /\ \A j \in (i + 1)..Len(params) : params[j].name # <<name>>
    IN params[i].value

\* params.get(name, default)
GetParamOr(params, name, default) ==
    IF HasParam(params, name) THEN GetParam(params, name) ELSE default

\* authorize without the test of response_type
authorize_any_response_type(params) ==
    IF ~HasParam(params, "response_type")
    THEN HttpError(400, "Parámetro requerido faltante: response_type")
    ELSE IF ~HasParam(params, "client_id")
    THEN HttpError(400, "Parámetro requerido faltante: client_id")
    ELSE IF ~HasParam(params, "redirect_uri")
    THEN HttpError(400, "Parámetro requerido faltante: redirect_uri")
    ELSE [status |-> 200,
          form |-> [client_id |-> GetParam(params, "client_id"),
                    redirect_uri |-> GetParam(params, "redirect_uri"),
                    response_type |-> GetParam(params, "response_type"),
                    scope |-> GetParamOr(params, "scope", <<DefaultScope>>),
                    state |-> GetParamOr(params, "state", <<>>),
                    code_challenge |-> GetParamOr(params, "code_challenge", <<>>),
                    code_challenge_method |->
                        GetParamOr(params, "code_challenge_method", <<>>)]]

\* authorize with the read scope as the default
authorize_default_read(params) ==
    IF ~HasParam(params, "response_type")
    THEN HttpError(400, "Parámetro requerido faltante: response_type")
    ELSE IF ~HasParam(params, "client_id")
    THEN HttpError(400, "Parámetro requerido faltante: client_id")
    ELSE IF ~HasParam(params, "redirect_uri")
    THEN HttpError(400, "Parámetro requerido faltante: redirect_uri")
    ELSE IF GetParam(params, "response_type") # <<"code">>
    THEN HttpError(400, "response_type debe ser 'code'")
    ELSE [status |-> 200,
          form |-> [client_id |-> GetParam(params, "client_id"),
                    redirect_uri |-> GetParam(params, "redirect_uri"),
                    response_type |-> GetParam(params, "response_type"),
                    scope |-> GetParamOr(params, "scope", <<"siac.user.read">>),
                    state |-> GetParamOr(params, "state", <<>>),
                    code_challenge |-> GetParamOr(params, "code_challenge", <<>>),
                    code_challenge_method |->
                        GetParamOr(params, "code_challenge_method", <<>>)]]

\* GET /oauth/authorize on the query parameters: a 400 or the login form
\* with its hidden fields
authorize(params) ==
    IF ~HasParam(params, "response_type")
    THEN HttpError(400, "Parámetro requerido faltante: response_type")
    ELSE IF ~HasParam(params, "client_id")
    THEN HttpError(400, "Parámetro requerido faltante: client_id")
    ELSE IF ~HasParam(params, "redirect_uri")
    THEN HttpError(400, "Parámetro requerido faltante: redirect_uri")
    ELSE IF GetParam(params, "response_type") # <<"code">>
    THEN HttpError(400, "response_type debe ser 'code'")
    ELSE [status |-> 200,
          form |-> [client_id |-> GetParam(params, "client_id"),
                    redirect_uri |-> GetParam(params, "redirect_uri"),
                    response_type |-> GetParam(params, "response_type"),
                    scope |-> GetParamOr(params, "scope", <<DefaultScope>>),
                    state |-> GetParamOr(params, "state", <<>>),
                    code_challenge |-> GetParamOr(params, "code_challenge", <<>>),
                    code_challenge_method |->
                        GetParamOr(params, "code_challenge_method", <<>>)]]

\* an optional form field as the handler receives it: an empty value is
\* replaced by the default None
FormField(v) == IF v = <<>> THEN NoStr ELSE v

\* the query a client sends to GET /oauth/authorize, from the values it
\* chooses (None, NoStr: the parameter is left out)
QueryOf(o) ==
    (IF o.response_type = None THEN <<>>
     ELSE <<[name |-> <<"response_type">>, value |-> <<o.response_type>>]>>)
    \o (IF o.client_id = None THEN <<>>
        ELSE <<[name |-> <<"client_id">>, value |-> <<o.client_id>>]>>)
    \o (IF o.redirect_uri = None THEN <<>>
        ELSE <<[name |-> <<"redirect_uri">>, value |-> <<o.redirect_uri>>]>>)
    \o (IF o.scope = None THEN <<>>
        ELSE <<[name |-> <<"scope">>, value |-> <<o.scope>>]>>)
    \o (IF o.state = NoStr THEN <<>>
        ELSE <<[name |-> <<"state">>, value |-> o.state]>>)
    \o (IF o.code_challenge = NoStr THEN <<>>
        ELSE <<[name |-> <<"code_challenge">>, value |-> o.code_challenge]>>)
    \o (IF o.code_challenge_method = NoStr THEN <<>>
        ELSE <<[name |-> <<"code_challenge_method">>, value |-> o.code_challenge_method]>>)

\* the client opens GET /oauth/authorize
Authorize(o) ==
    /\ browser.pc = "START"
    /\ LET page == authorize(QueryOf(o)) IN
       browser' = [pc |-> IF page.status = 200 THEN "AWAITING_CREDENTIALS" ELSE "ERROR",
                   sent |-> o, page |-> page, failed |-> FALSE, location |-> NoDict]
    /\ UNCHANGED <<authVars, gateway>>

\* the user submits the login form: POST /oauth/login with the hidden fields
SubmitLogin(email, password) ==
    /\ browser.pc = "AWAITING_CREDENTIALS"
    /\ LET f == browser.page.form IN
       login(email, password, f.client_id[1], f.redirect_uri[1], f.response_type[1],
             f.scope[1], FormField(f.state), FormField(f.code_challenge),
             FormField(f.code_challenge_method))
    /\ browser' = [browser EXCEPT
                     !.pc = IF loginResp'.status = 303 THEN "REDIRECTED" ELSE "CODE_ISSUED",
                     !.failed = browser.failed \/ loginResp'.status = 303,
                     !.location = loginResp'.location]

\* the user agent follows the 303 back to GET /oauth/authorize
FollowRedirect ==
    /\ browser.pc = "REDIRECTED"
    /\ LET page == authorize(ParseQuery(Quote(browser.location.query))) IN
       browser' = [browser EXCEPT
                     !.pc = IF page.status = 200 THEN "AWAITING_CREDENTIALS" ELSE "ERROR",
                     !.page = page]
    /\ UNCHANGED <<authVars, gateway>>

\* parameter validation calling get_authorization_code before it rejects
CodesAfterValidation_taken(codes, code) == Drop(codes, code)

\* the code store when parameter validation rejects a request:
\* get_authorization_code has not been called
CodesAfterValidation(codes, code) == codes

\* POST /oauth/token, up to and including get_authorization_code; body is
\* the submitted form
token(r, body) ==
    LET done(resp) == tokenReq' = [tokenReq EXCEPT ![r] =
                          [pc |-> "done", body |-> NoDict, call |-> NoDict, resp |-> resp]]
        got == get_authorization_code(authorization_codes, body.code, now)
        call == [code |-> body.code, redirect_uri |-> body.redirect_uri,
                 client_id |-> body.client_id, code_verifier |-> body.code_verifier,
                 scope |-> body.scope, result |-> got.result, at |-> now,
                 first |-> body.code \in DOMAIN issued /\ body.code \notin consumed]
    IN
    /\ tokenReq[r].pc = "idle"
    /\ \A q \in Reqs : q < r => tokenReq[q].pc # "idle"
    /\ IF body.grant_type \notin {"authorization_code", "refresh_token"}
       THEN /\ done(HttpError(400, "grant_type debe ser 'authorization_code' o 'refresh_token'"))
            /\ authorization_codes' =
                   CodesAfterValidation(authorization_codes, body.code)
            /\ UNCHANGED consumed
       ELSE IF body.grant_type = "authorization_code"
       THEN IF body.code \in {None, ""}
            THEN /\ done(HttpError(400, "Código de autorización requerido"))
                 /\ authorization_codes' =
                        CodesAfterValidation(authorization_codes, body.code)
                 /\ UNCHANGED consumed
            ELSE IF body.redirect_uri \in {None, ""}
            THEN /\ done(HttpError(400, "redirect_uri requerido"))
                 /\ authorization_codes' =
                        CodesAfterValidation(authorization_codes, body.code)
                 /\ UNCHANGED consumed
            ELSE /\ authorization_codes' = got.store
                 /\ consumed' = IF body.code \in DOMAIN authorization_codes
                                THEN consumed \cup {body.code} ELSE consumed
                 /\ tokenReq' = [tokenReq EXCEPT ![r] =
                        IF got.result = NoDict
                        THEN [pc |-> "done", body |-> NoDict, call |-> call,
                              resp |-> HttpError(400, "Código de autorización inválido o expirado")]
                        ELSE [pc |-> "exchange", body |-> body, call |-> call,
                              resp |-> NoDict]]
       ELSE IF body.refresh_token \in {None, ""}
            THEN /\ done(HttpError(400, "refresh_token requerido"))
                 /\ authorization_codes' =
                        CodesAfterValidation(authorization_codes, body.code)
                 /\ UNCHANGED consumed
            ELSE /\ done([status |-> 200,
                          access_token |-> AccessTokenName(r),
                          token_type |-> "Bearer", expires_in |-> ExpiresIn,
                          refresh_token |-> RefreshTokenName(r),
                          scope |-> IF body.scope \in {None, ""}
                                    THEN DefaultScope ELSE body.scope])
                 /\ UNCHANGED <<authorization_codes, consumed>>
    /\ UNCHANGED <<users, active_tokens, now, ticks, loginResp, issued, minted,
                   evicted, lastInfo, revoked, lastRevoke, gateway, browser>>

\* exchange without the redirect_uri check
RedirectUriMatches_skipped(code_data, redirect_uri) == TRUE

\* the redirect_uri check of the exchange: TRUE when the request may proceed
RedirectUriMatches(code_data, redirect_uri) ==
    ~(code_data.redirect_uri # redirect_uri)

\* exchange preferring the scope of the request body
GrantedScope_requested(code_data, body) ==
    IF body.scope \in {None, ""} THEN code_data.scope ELSE body.scope

\* exchange granting the scope only to a request whose code_verifier is the
\* code_challenge stored with the code
GrantedScope_verified(code_data, body) ==
    IF code_data.code_challenge = NoStr \/ body.code_verifier = code_data.code_challenge
    THEN code_data.scope ELSE ""

\* the scope given to the minted token and returned in the response
GrantedScope(code_data, body) == code_data.scope

\* exchange taking the client_id of the request body when it has one
GrantedClient_requested(code_data, body) ==
    IF body.client_id \in {None, ""} THEN code_data.client_id ELSE body.client_id

\* the client_id given to the minted token
GrantedClient(code_data, body) == code_data.client_id

\* a request that ends without a token putting the code it took back
CodesAfterRejection_restored(codes, code, code_data) == Put(codes, code, code_data)

\* the code store when a request ends without a token after
\* get_authorization_code took the code: nothing is put back
CodesAfterRejection(codes, code, code_data) == codes

\* POST /oauth/token, authorization_code grant, after get_authorization_code
tokenExchange(r) ==
    LET req == tokenReq[r]
        code_data == req.call.result
        user == get_user_by_id(users, code_data.user_id)
        access_token == AccessTokenName(r)
        new_refresh_token == RefreshTokenName(r)
        done(resp) == tokenReq' = [tokenReq EXCEPT ![r] =
                          [pc |-> "done", body |-> NoDict, call |-> req.call, resp |-> resp]]
    IN
    /\ req.pc = "exchange"
    /\ IF ~RedirectUriMatches(code_data, req.body.redirect_uri)
       THEN /\ done(HttpError(400, "redirect_uri no coincide"))
            /\ authorization_codes' =
                   CodesAfterRejection(authorization_codes, req.call.code, code_data)
            /\ UNCHANGED <<active_tokens, minted>>
       ELSE IF user = NoDict
       THEN /\ done(HttpError(500, "Error interno del servidor"))
            /\ authorization_codes' =
                   CodesAfterRejection(authorization_codes, req.call.code, code_data)
            /\ UNCHANGED <<active_tokens, minted>>
       ELSE /\ UNCHANGED authorization_codes
            /\ active_tokens' = store_token(active_tokens, access_token, user.user_id,
                                            GrantedClient(code_data, req.body),
                                            GrantedScope(code_data, req.body), now)
            /\ minted' = Put(minted, access_token,
                             [record |-> active_tokens'[access_token],
                              code |-> req.call.code, by |-> r])
            /\ done([status |-> 200, access_token |-> access_token,
                     token_type |-> "Bearer", expires_in |-> ExpiresIn,
                     refresh_token |-> new_refresh_token,
                     scope |-> GrantedScope(code_data, req.body)])
    /\ UNCHANGED <<users, now, ticks, loginResp, issued,
                   consumed, evicted, lastInfo, revoked, lastRevoke, gateway, browser>>

\* a POST /oauth/token request is abandoned after get_authorization_code
\* returned (the client went away, the task was cancelled): the rest of the
\* handler does not run and no response is sent
Cancel(r) ==
    /\ tokenReq[r].pc = "exchange"
    /\ tokenReq' = [tokenReq EXCEPT ![r] =
           [pc |-> "done", body |-> NoDict, call |-> tokenReq[r].call,
            resp |-> [status |-> 0, error |-> "cancelled"]]]
    /\ authorization_codes' =
           CodesAfterRejection(authorization_codes, tokenReq[r].call.code,
                               tokenReq[r].call.result)
    /\ UNCHANGED <<users, active_tokens, now, ticks, loginResp, issued, consumed,
                   minted, evicted, lastInfo, revoked, lastRevoke, gateway, browser>>

\* POST /oauth/tokeninfo
tokeninfo(tok) ==
    LET got == get_token_info(active_tokens, users, tok, now) IN
    /\ active_tokens' = got.store
    /\ evicted' = IF tok \in DOMAIN active_tokens /\ tok \notin DOMAIN got.store
                  THEN evicted \cup {tok} ELSE evicted
    /\ lastInfo' = [token |-> tok, at |-> now, result |-> got.result,
                    stored |-> tok \in DOMAIN active_tokens,
                    evictedBefore |-> tok \in evicted,
                    revokedBefore |-> tok \in revoked,
                    status |-> IF got.result = NoDict THEN 401 ELSE 200]
    /\ UNCHANGED <<users, authorization_codes, now, ticks, loginResp,
                   tokenReq, issued, consumed, minted, revoked, lastRevoke,
                   gateway, browser>>

\* UserDatabase.revoke_token called on a token string
RevokeToken(tok) ==
    /\ active_tokens' = revoke_token(active_tokens, tok)
    /\ revoked' = revoked \cup {tok}
    /\ lastRevoke' = [token |-> tok, before |-> active_tokens,
                      after |-> active_tokens', again |-> tok \in revoked]
    /\ UNCHANGED <<users, authorization_codes, now, ticks, loginResp, tokenReq,
                   issued, consumed, minted, evicted, lastInfo, gateway, browser>>

\* POST /oauth/revoke calling UserDatabase.revoke_token on the token sent
RevokeEndpoint_revoking(tok) ==
    /\ active_tokens' = revoke_token(active_tokens, tok)
    /\ revoked' = revoked \cup {tok}
    /\ lastRevoke' = [token |-> tok, before |-> active_tokens, after |-> active_tokens',
                      again |-> tok \in revoked,
                      response |-> [status |-> 200,
                                    message |-> "Token revocado exitosamente",
                                    timestamp |-> now]]
    /\ UNCHANGED <<users, authorization_codes, now, ticks, loginResp, tokenReq,
                   issued, consumed, minted, evicted, lastInfo, gateway, browser>>

\* POST /oauth/revoke (the endpoint revoke_token of main.py) with tok in its
\* body: the request is not read and the answer is fixed
RevokeEndpoint(tok) ==
    /\ active_tokens' = active_tokens
    /\ revoked' = revoked \cup {tok}
    /\ lastRevoke' = [token |-> tok, before |-> active_tokens, after |-> active_tokens',
                      again |-> tok \in revoked,
                      response |-> [status |-> 200,
                                    message |-> "Token revocado exitosamente",
                                    timestamp |-> now]]
    /\ UNCHANGED <<users, authorization_codes, now, ticks, loginResp, tokenReq,
                   issued, consumed, minted, evicted, lastInfo, gateway, browser>>

\* the codes a client may present: none, one never issued ("auth_code_0"),
\* any ever issued
PresentedCodes == {None, "auth_code_0"} \cup DOMAIN issued
\* the tokens a client may present to tokeninfo: any ever stored, any returned
\* by a refresh, one never minted
PresentedTokens ==
    DOMAIN minted
    \cup {tokenReq[r].resp.access_token :
            r \in {q \in Reqs : tokenReq[q].pc = "done" /\ tokenReq[q].resp.status = 200}}
    \cup {AccessTokenName(15)}

\* the forms a client may submit to POST /oauth/token
TokenBodies ==
    [grant_type : {"authorization_code"}, code : PresentedCodes,
     redirect_uri : {"https://cb", "https://evil"} \cup {None},
     client_id : {None, "other_client"}, code_verifier : {NoStr},
     refresh_token : {None}, scope : RequestScopes]
    \cup [grant_type : {"refresh_token"}, code : {None}, redirect_uri : {None},
          client_id : {None}, code_verifier : {NoStr},
          refresh_token : {None, "refresh_token_x"}, scope : RequestScopes]
    \cup [grant_type : {"password"}, code : {None}, redirect_uri : {None},
          client_id : {None}, code_verifier : {NoStr}, refresh_token : {None},
          scope : {None}]

\* the forms a client may submit to POST /oauth/login
LoginForms ==
    [email : Emails, password : Passwords, client_id : ClientIds,
     redirect_uri : LoginRedirectUris, response_type : {"code"}, scope : Scopes,
     state : {NoStr}, code_challenge : {NoStr}, code_challenge_method : {NoStr}]

\* a login form posted directly
Login(f) ==
    /\ login(f.email, f.password, f.client_id, f.redirect_uri, f.response_type,
             f.scope, f.state, f.code_challenge, f.code_challenge_method)
    /\ UNCHANGED browser

\* the life of authorization codes: a user logs in, clients present codes to
\* POST /oauth/token with either redirect_uri, concurrently and
\* repeatedly, and time passes by a minute or by one code lifetime
AdminLoginForms == {f \in LoginForms : f.email = "admin@siac.com"
                                       /\ f.password = "admin123"
                                       /\ f.scope = DefaultScope}
ExchangeTokenBodies == {b \in TokenBodies : /\ b.grant_type = "authorization_code"
                                            /\ b.code # None
                                            /\ b.redirect_uri # None
                                            /\ b.client_id = None
                                            /\ b.scope = None}

Next ==
    \/ \E d \in {1, CodeTTL} : Tick(d)
    \/ \E f \in AdminLoginForms : Login(f)
    \/ \E r \in Reqs, body \in ExchangeTokenBodies : token(r, body)
    \/ \E r \in Reqs : tokenExchange(r)

Spec == Init /\ [][Next]_vars

\* the same, with requests that may be abandoned half way
NextRetry ==
    \/ Next
    \/ \E r \in Reqs : Cancel(r)

SpecRetry == Init /\ [][NextRetry]_vars

\* what an exchange binds: users log in asking for either scope, clients
\* present issued codes with either redirect_uri, either scope and a
\* client_id of their own or none
BindingTokenBodies == {b \in TokenBodies : /\ b.grant_type = "authorization_code"
                                           /\ b.code \in DOMAIN issued
                                           /\ b.redirect_uri # None}

NextBinding ==
    \/ \E f \in LoginForms : Login(f)
    \/ \E r \in Reqs, body \in BindingTokenBodies : token(r, body)
    \/ \E r \in Reqs : tokenExchange(r)

SpecBinding == Init /\ [][NextBinding]_vars

\* token issuance and token introspection: one user logs in, codes are
\* exchanged or tokens refreshed, POST /oauth/tokeninfo is called, time passes
\* by a minute or by one token lifetime
InfoTokenBodies == {b \in TokenBodies :
                      /\ b.scope = None
                      /\ b.client_id = None
                      /\ \/ b.grant_type = "authorization_code"
                            /\ b.code \in DOMAIN issued
                            /\ b.redirect_uri \in LoginRedirectUris
                         \/ b.grant_type = "refresh_token"
                            /\ b.refresh_token # None}

NextInfo ==
    \/ \E d \in {1, TokenTTL} : Tick(d)
    \/ \E f \in AdminLoginForms : Login(f)
    \/ \E r \in Reqs, body \in InfoTokenBodies : token(r, body)
    \/ \E r \in Reqs : tokenExchange(r)
    \/ \E tok \in PresentedTokens : tokeninfo(tok)

SpecInfo == Init /\ [][NextInfo]_vars

\* revocation: one user logs in, codes are exchanged, revoke_token and POST
\* /oauth/tokeninfo are called on tokens stored or not, in any order and
\* repeatedly, and time passes by one token lifetime

NextRevoke ==
    \/ \E d \in {TokenTTL} : Tick(d)
    \/ \E f \in AdminLoginForms : Login(f)
    \/ \E r \in Reqs, body \in {b \in InfoTokenBodies : b.grant_type = "authorization_code"} :
         token(r, body)
    \/ \E r \in Reqs : tokenExchange(r)
    \/ \E tok \in PresentedTokens : RevokeToken(tok)
    \/ \E tok \in PresentedTokens : tokeninfo(tok)

SpecRevoke == Init /\ [][NextRevoke]_vars

\* the forms of POST /oauth/token: one user logs in with or without a PKCE
\* code_challenge; clients send every kind of token request, well formed or
\* lacking a parameter, with no code_verifier, with the challenge itself as
\* code_verifier or with another one
FormsTokenBodies ==
    {[b EXCEPT !.code_verifier = v] :
        b \in {x \in TokenBodies : x.client_id = None /\ x.scope = None},
        v \in {NoStr, <<"c", "h">>, <<"z">>}}

NextForms ==
    \/ \E f \in AdminLoginForms, c \in {NoStr, <<"c", "h">>} :
         Login([f EXCEPT !.code_challenge = c])
    \/ \E r \in Reqs, body \in FormsTokenBodies : token(r, body)
    \/ \E r \in Reqs : tokenExchange(r)

SpecForms == Init /\ [][NextForms]_vars

\* the revocation endpoint: one user logs in, the code is exchanged, POST
\* /oauth/revoke and POST /oauth/tokeninfo are called on the tokens the
\* server issued, in any order and repeatedly, and time passes by one token
\* lifetime
NextRevokeEndpoint ==
    \/ Tick(TokenTTL)
    \/ \E f \in AdminLoginForms : Login(f)
    \/ \E r \in Reqs, body \in {b \in InfoTokenBodies : b.grant_type = "authorization_code"} :
         token(r, body)
    \/ \E r \in Reqs : tokenExchange(r)
    \/ \E tok \in DOMAIN minted : RevokeEndpoint(tok)
    \/ \E tok \in DOMAIN minted : tokeninfo(tok)

SpecRevokeEndpoint == Init /\ [][NextRevokeEndpoint]_vars

\* the Grant Store by itself: the five UserDatabase methods on codes and
\* tokens are called directly, on two code names and two token names, for
\* either of two users, in any order, and time passes by one token lifetime
StoreAuthorizationCode(code, user_id) ==
    /\ authorization_codes' =
           store_authorization_code(authorization_codes, code, user_id, "c1",
                                    "https://cb", DefaultScope, NoStr, now)
    /\ UNCHANGED <<users, active_tokens, now, ticks, loginResp, tokenReq, issued,
                   consumed, minted, evicted, lastInfo, revoked, lastRevoke,
                   gateway, browser>>

GetAuthorizationCode(code) ==
    /\ authorization_codes' = get_authorization_code(authorization_codes, code, now).store
    /\ UNCHANGED <<users, active_tokens, now, ticks, loginResp, tokenReq, issued,
                   consumed, minted, evicted, lastInfo, revoked, lastRevoke,
                   gateway, browser>>

StoreToken(tok, user_id) ==
    /\ active_tokens' = store_token(active_tokens, tok, user_id, "c1", DefaultScope, now)
    /\ UNCHANGED <<users, authorization_codes, now, ticks, loginResp, tokenReq,
                   issued, consumed, minted, evicted, lastInfo, revoked, lastRevoke,
                   gateway, browser>>

GetTokenInfo(tok) ==
    /\ active_tokens' = get_token_info(active_tokens, users, tok, now).store
    /\ UNCHANGED <<users, authorization_codes, now, ticks, loginResp, tokenReq,
                   issued, consumed, minted, evicted, lastInfo, revoked, lastRevoke,
                   gateway, browser>>

Revoke(tok) ==
    /\ active_tokens' = revoke_token(active_tokens, tok)
    /\ UNCHANGED <<users, authorization_codes, now, ticks, loginResp, tokenReq,
                   issued, consumed, minted, evicted, lastInfo, revoked, lastRevoke,
                   gateway, browser>>

StoreCodes == {AuthCodeName(1), AuthCodeName(2)}
StoreTokens == {AccessTokenName(1), AccessTokenName(2)}

NextStore ==
    \/ Tick(TokenTTL)
    \/ \E c \in StoreCodes, u \in {"user_001", "user_002"} : StoreAuthorizationCode(c, u)
    \/ \E c \in StoreCodes : GetAuthorizationCode(c)
    \/ \E tok \in StoreTokens, u \in {"user_001", "user_002"} : StoreToken(tok, u)
    \/ \E tok \in StoreTokens : GetTokenInfo(tok)
    \/ \E tok \in StoreTokens : Revoke(tok)

SpecStore == Init /\ [][NextStore]_vars

\* logins against user records of which one may have been provisioned
\* inactive: forms posted without a visit to GET /oauth/authorize, with a
\* known or unknown email, a right or wrong password and either response_type
InitProvisioned ==
    /\ users \in {[InitUsers EXCEPT !["user_002"].active = a] : a \in BOOLEAN}
    /\ InitStores
CredentialForms ==
    [email : Emails \cup {"nobody@siac.com"}, password : Passwords, client_id : ClientIds,
     redirect_uri : LoginRedirectUris, response_type : {"code", "token"}, scope : Scopes,
     state : {NoStr, <<"x", "y">>}, code_challenge : {NoStr},
     code_challenge_method : {NoStr}]

NextLogin == \E f \in CredentialForms : Login(f)

SpecLogin == InitProvisioned /\ [][NextLogin]_vars

\* one authorization attempt from GET /oauth/authorize to the token: the
\* client opens the login page, the user submits right or wrong credentials,
\* the user agent follows the redirects, the client exchanges the code, and
\* time passes by a minute or by one code lifetime
AuthorizeRequests ==
    [response_type : {None, "code", "token"}, client_id : {None, "c1"},
     redirect_uri : {None, "https://cb"}, scope : {None, "siac.user.read"},
     state : {NoStr, <<"x", "y">>, <<"x", "+", "y">>, <<"x", "&", "y">>},
     code_challenge : {NoStr, <<"c", "h">>},
     code_challenge_method : {NoStr, <<"S", "2", "5", "6">>}]
AttemptTokenBodies == {b \in TokenBodies : /\ b.grant_type = "authorization_code"
                                           /\ b.code \in DOMAIN issued
                                           /\ b.redirect_uri \in LoginRedirectUris
                                           /\ b.client_id = None
                                           /\ b.scope = None}

NextAttempt ==
    \/ \E d \in {1, CodeTTL} : Tick(d)
    \/ \E o \in AuthorizeRequests : Authorize(o)
    \/ \E email \in Emails, password \in Passwords : SubmitLogin(email, password)
    \/ FollowRedirect
    \/ \E r \in Reqs, body \in AttemptTokenBodies : token(r, body)
    \/ \E r \in Reqs : tokenExchange(r)

SpecAttempt == Init /\ [][NextAttempt]_vars

----------------------------------------------------------------------------
\* Resource server (src/server/main.py).  Strings that the code takes apart
\* (tokens, Authorization headers, scope claims) are sequences of characters.

\* AuthSettings
issuer_url == "https://auth.siac-app.com"
resource_server_url == "https://api.siac-app.com/mcp"
required_scope == <<"s","i","a","c",".","u","s","e","r",".","f","u","l","l","_","a","c","c","e","s","s">>
audience == "siac-assistant"

\* the literals the code compares tokens and headers with
Str_valid_token == <<"v","a","l","i","d","_","t","o","k","e","n">>
Str_expired_token == <<"e","x","p","i","r","e","d","_","t","o","k","e","n">>
Str_invalid_issuer == <<"i","n","v","a","l","i","d","_","i","s","s","u","e","r">>
Str_missing_scope == <<"m","i","s","s","i","n","g","_","s","c","o","p","e">>
Str_invalid_audience == <<"i","n","v","a","l","i","d","_","a","u","d","i","e","n","c","e">>
Str_malformed_token == <<"m","a","l","f","o","r","m","e","d","_","t","o","k","e","n">>
Str_eyJ == <<"e","y","J">>
Str_Bearer == <<"B","e","a","r","e","r"," ">>
Str_read_scope == <<"s","i","a","c",".","u","s","e","r",".","r","e","a","d">>

\* characters str.strip() and str.split() treat as white space
Whitespace == {" ", "\t", "\n", "\r"}
\* the character class [A-Za-z0-9_-]
Base64Chars ==
    {"-", "0", "1", "2", "3", "4", "5", "6", "7", "8", "9", "A", "B", "C", "D", "E",
     "F", "G", "H", "I", "J", "K", "L", "M", "N", "O", "P", "Q", "R", "S", "T", "U",
     "V", "W", "X", "Y", "Z", "_", "a", "b", "c", "d", "e", "f", "g", "h", "i", "j",
     "k", "l", "m", "n", "o", "p", "q", "r", "s", "t", "u", "v", "w", "x", "y", "z"}

\* s.startswith(prefix)
StartsWith(s, prefix) ==
    Len(s) >= Len(prefix) /\ SubSeq(s, 1, Len(prefix)) = prefix

\* s.strip() == ""
IsBlank(s) == \A i \in 1..Len(s) : s[i] \in Whitespace

\* s.split(): the words of s between runs of white space
RECURSIVE SplitWsFrom(_, _, _, _)
SplitWsFrom(s, i, cur, acc) ==
    IF i > Len(s) THEN (IF cur = <<>> THEN acc ELSE Append(acc, cur))
    ELSE IF s[i] \in Whitespace
         THEN SplitWsFrom(s, i + 1, <<>>, IF cur = <<>> THEN acc ELSE Append(acc, cur))
         ELSE SplitWsFrom(s, i + 1, Append(cur, s[i]), acc)

SplitWs(s) == SplitWsFrom(s, 1, <<>>, <<>>)

\* s.split('.'): the parts of s between dots, empty parts included
RECURSIVE SplitDotFrom(_, _, _, _)
SplitDotFrom(s, i, cur, acc) ==
    IF i > Len(s) THEN Append(acc, cur)
    ELSE IF s[i] = "."
         THEN SplitDotFrom(s, i + 1, <<>>, Append(acc, cur))
         ELSE SplitDotFrom(s, i + 1, Append(cur, s[i]), acc)

SplitDot(s) == SplitDotFrom(s, 1, <<>>, <<>>)

\* re.compile(r'^[A-Za-z0-9_-]+$').match(part): $ also matches before a final
\* newline
MatchesBase64(part) ==
    LET body == IF Len(part) > 0 /\ part[Len(part)] = "\n"
                THEN SubSeq(part, 1, Len(part) - 1) ELSE part
    IN body # <<>> /\ \A i \in 1..Len(body) : body[i] \in Base64Chars

\* s.replace(old, new)
RECURSIVE ReplaceFrom(_, _, _, _)
ReplaceFrom(s, i, old, new) ==
    IF i > Len(s) THEN <<>>
    ELSE IF StartsWith(SubSeq(s, i, Len(s)), old)
         THEN new \o ReplaceFrom(s, i + Len(old), old, new)
         ELSE <<s[i]>> \o ReplaceFrom(s, i + 1, old, new)

\* s[:n]
Take(s, n) == SubSeq(s, 1, IF Len(s) < n THEN Len(s) ELSE n)

\* TokenVerifier._is_valid_token_format
is_valid_token_format(tok) ==
    IF tok = <<>> THEN FALSE
    ELSE LET parts == SplitDot(tok) IN
         IF Len(parts) # 3 THEN FALSE
         ELSE \A k \in 1..3 : parts[k] # <<>> /\ MatchesBase64(parts[k])

\* the value of every WWW-Authenticate header the verifier and call_tool set:
\* f'Bearer realm="{resource_server_url}", scope="{required_scope}"'
WwwAuthenticate ==
    [scheme |-> "Bearer", realm |-> resource_server_url, scope |-> required_scope]

\* HTTPException(401, detail, headers={"WWW-Authenticate": ...})
Unauthorized(detail) ==
    [outcome |-> "HTTPException", status_code |-> 401, detail |-> detail,
     headers |-> [WWW_Authenticate |-> WwwAuthenticate]]

\* ValueError raised by _parse_token
ParseError == [outcome |-> "ValueError"]

\* claims carrying the scope siac.user.read whatever _parse_token asks for
MockClaims_read_scope(iss, aud, sub, scope, exp, t, client_id) ==
    [iss |-> iss, aud |-> aud, sub |-> sub, scope |-> Str_read_scope, exp |-> exp,
     iat |-> t, client_id |-> client_id]

\* the claims _parse_token makes up at time t (epoch seconds)
MockClaims(iss, aud, sub, scope, exp, t, client_id) ==
    [iss |-> iss, aud |-> aud, sub |-> sub, scope |-> scope, exp |-> exp,
     iat |-> t, client_id |-> client_id]

\* TokenVerifier._parse_token at time t
RECURSIVE parse_token(_, _)
parse_token(tok, t) ==
    IF StartsWith(tok, AccessTokenPrefix)
    THEN MockClaims(issuer_url, audience, "chatgpt_user", required_scope, t + 3600, t,
                    Take(ReplaceFrom(tok, 1, AccessTokenPrefix, <<"c","l","i","e","n","t","_">>), 20))
    ELSE IF tok = Str_valid_token
    THEN MockClaims(issuer_url, audience, "user123",
                    required_scope \o <<" ">> \o Str_read_scope, t + 3600, t, "siac-client")
    ELSE IF tok = Str_expired_token
    THEN [MockClaims(issuer_url, audience, "user123", required_scope, t - 3600, t,
                     "siac-client") EXCEPT !.iat = t - 7200]
    ELSE IF tok = Str_invalid_issuer
    THEN MockClaims("https://invalid-issuer.com", audience, "user123", required_scope,
                    t + 3600, t, "siac-client")
    ELSE IF tok = Str_missing_scope
    THEN MockClaims(issuer_url, audience, "user123", Str_read_scope, t + 3600, t,
                    "siac-client")
    ELSE IF tok = Str_invalid_audience
    THEN MockClaims(issuer_url, "https://wrong-audience.com", "user123", required_scope,
                    t + 3600, t, "siac-client")
    ELSE IF tok = Str_malformed_token
    THEN ParseError
    ELSE IF StartsWith(tok, Str_Bearer)
    THEN LET actual_token == SubSeq(tok, 8, Len(tok)) IN
         IF actual_token = Str_valid_token
         THEN parse_token(actual_token, t)
         ELSE IF StartsWith(actual_token, Str_eyJ)
         THEN MockClaims(issuer_url, audience, "user123",
                         required_scope \o <<" ">> \o Str_read_scope, t + 3600, t,
                         "siac-client")
         ELSE IF ~is_valid_token_format(actual_token)
         THEN ParseError
         ELSE parse_token(actual_token, t)
    ELSE ParseError

\* the tokens verify_token exempts from the format check
FormatExempt(tok) ==
    \/ tok \in {Str_valid_token, Str_expired_token, Str_invalid_issuer,
                Str_missing_scope, Str_invalid_audience, Str_malformed_token}
    \/ StartsWith(tok, Str_eyJ)
    \/ StartsWith(tok, AccessTokenPrefix)

\* the except Exception branch missing: the parse error leaves verify_token
UnexpectedError_propagated == ParseError

\* the except Exception branch of verify_token
UnexpectedError == Unauthorized("Token verification failed")

\* the checks without the audience check
CheckClaims_no_audience(tok, token_claims, t) ==
    IF token_claims.iss # issuer_url
    THEN Unauthorized("Invalid token issuer")
    ELSE IF token_claims.exp # 0 /\ token_claims.exp < t
    THEN Unauthorized("Token has expired")
    ELSE LET token_scopes == SplitWs(token_claims.scope) IN
         IF \A k \in 1..Len(token_scopes) : token_scopes[k] # required_scope
         THEN Unauthorized("Missing required scope: siac.user.full_access")
         ELSE IF ~FormatExempt(tok) /\ ~is_valid_token_format(tok)
         THEN Unauthorized("Invalid token format")
         ELSE [outcome |-> "return", claims |-> token_claims]

\* the checks with the scope check moved before the expiry check
CheckClaims_scope_first(tok, token_claims, t) ==
    IF token_claims.iss # issuer_url
    THEN Unauthorized("Invalid token issuer")
    ELSE IF token_claims.aud # audience
    THEN Unauthorized("Invalid token audience")
    ELSE LET token_scopes == SplitWs(token_claims.scope) IN
         IF \A k \in 1..Len(token_scopes) : token_scopes[k] # required_scope
         THEN Unauthorized("Missing required scope: siac.user.full_access")
         ELSE IF token_claims.exp # 0 /\ token_claims.exp < t
         THEN Unauthorized("Token has expired")
         ELSE IF ~FormatExempt(tok) /\ ~is_valid_token_format(tok)
         THEN Unauthorized("Invalid token format")
         ELSE [outcome |-> "return", claims |-> token_claims]

\* verify_token after _parse_token returned token_claims: the checks on
\* issuer, audience, expiry, scope and format, at time t (epoch seconds)
CheckClaims(tok, token_claims, t) ==
    IF token_claims.iss # issuer_url
    THEN Unauthorized("Invalid token issuer")
    ELSE IF token_claims.aud # audience
    THEN Unauthorized("Invalid token audience")
    ELSE IF token_claims.exp # 0 /\ token_claims.exp < t
    THEN Unauthorized("Token has expired")
    ELSE LET token_scopes == SplitWs(token_claims.scope) IN
         IF \A k \in 1..Len(token_scopes) : token_scopes[k] # required_scope
         THEN Unauthorized("Missing required scope: siac.user.full_access")
         ELSE IF ~FormatExempt(tok) /\ ~is_valid_token_format(tok)
         THEN Unauthorized("Invalid token format")
         ELSE [outcome |-> "return", claims |-> token_claims]

\* TokenVerifier.verify_token; _parse_token reads the clock at t1, the expiry
\* check at t2 >= t1
verify_token(tok, t1, t2) ==
    IF tok = <<>> \/ IsBlank(tok)
    THEN Unauthorized("Access token is required")
    ELSE LET token_claims == parse_token(tok, t1) IN
         IF token_claims = ParseError
         THEN UnexpectedError
         ELSE CheckClaims(tok, token_claims, t2)

\* JSON-RPC method names
Str_initialize == <<"i","n","i","t","i","a","l","i","z","e">>
Str_tools_list == <<"t","o","o","l","s","/","l","i","s","t">>
Str_resources_list == <<"r","e","s","o","u","r","c","e","s","/","l","i","s","t">>
Str_prompts_list == <<"p","r","o","m","p","t","s","/","l","i","s","t">>
Str_tools_call == <<"t","o","o","l","s","/","c","a","l","l">>
Str_notifications_initialized == <<"n","o","t","i","f","i","c","a","t","i","o","n","s","/","i","n","i","t","i","a","l","i","z","e","d">>
Str_notifications == <<"n","o","t","i","f","i","c","a","t","i","o","n","s","/">>
Str_ping == <<"p","i","n","g">>

\* s.partition(" "): the text before and after the first space
RECURSIVE FirstSpace(_, _)
FirstSpace(s, i) ==
    IF i > Len(s) THEN 0 ELSE IF s[i] = " " THEN i ELSE FirstSpace(s, i + 1)

Partition(s) ==
    LET i == FirstSpace(s, 1) IN
    IF i = 0 THEN [head |-> s, tail |-> <<>>]
    ELSE [head |-> SubSeq(s, 1, i - 1), tail |-> SubSeq(s, i + 1, Len(s))]

\* s.lower() == "bearer"
IsBearerScheme(s) ==
    /\ Len(s) = 6
    /\ s[1] \in {"b", "B"} /\ s[2] \in {"e", "E"} /\ s[3] \in {"a", "A"}
    /\ s[4] \in {"r", "R"} /\ s[5] \in {"e", "E"} /\ s[6] \in {"r", "R"}

\* what HTTPBearer() raises when the header is missing or not a bearer
\* credential: 403 in the framework versions that predate the RFC 6750 fix,
\* 401 with a bare challenge in the later ones; the repository pins neither
HTTPBearerRejections(detail) ==
    {[outcome |-> "HTTPException", status_code |-> 403, detail |-> detail,
      headers |-> NoDict],
     [outcome |-> "HTTPException", status_code |-> 401, detail |-> "Not authenticated",
      headers |-> [WWW_Authenticate |-> [scheme |-> "Bearer"]]]}

\* security = HTTPBearer(): the outcomes of the dependency on an
\* Authorization header value
HTTPBearer(authorization) ==
    IF authorization = NoStr \/ authorization = <<>>
    THEN HTTPBearerRejections("Not authenticated")
    ELSE LET p == Partition(authorization) IN
         IF p.head = <<>> \/ p.tail = <<>>
         THEN HTTPBearerRejections("Not authenticated")
         ELSE IF ~IsBearerScheme(p.head)
         THEN HTTPBearerRejections("Invalid authentication credentials")
         ELSE {[outcome |-> "return", credentials |-> p.tail]}

\* get_current_user on the outcome of the HTTPBearer dependency
get_current_user(credentials, t1, t2) ==
    IF credentials.outcome = "return"
    THEN verify_token(credentials.credentials, t1, t2)
    ELSE credentials

\* http_exception_handler: the headers of the exception are kept for 401 only
http_exception_handler(exc) ==
    IF exc.status_code = 401
    THEN [status_code |-> exc.status_code, content |-> [detail |-> exc.detail],
          headers |-> exc.headers]
    ELSE [status_code |-> exc.status_code, content |-> [detail |-> exc.detail],
          headers |-> NoDict]

\* a JSON-RPC result / error returned by mcp_handler with status 200
JsonRpcResult(id, result) ==
    [status_code |-> 200, content |-> [id |-> id, result |-> result], headers |-> NoDict]

JsonRpcErrorResponse(id, code, message, data) ==
    [status_code |-> 200,
     content |-> [id |-> id, error |-> [code |-> code, message |-> message, data |-> data]],
     headers |-> NoDict]

\* request bodies that are not a JSON object
InvalidJson == [json |-> "invalid"]
JsonArray == [json |-> "array"]

\* the last branch answering as the handler of exceptions does
MethodNotFound_internal(request_id, method) ==
    JsonRpcErrorResponse(request_id, -32603, "Internal error", method)

\* mcp_handler, the last branch: the method is none of the handled ones
MethodNotFound(request_id, method) ==
    [status_code |-> 200,
     content |-> [id |-> request_id,
                  error |-> [code |-> -32601,
                             message |-> [text |-> "Method not found: ", method |-> method]]],
     headers |-> NoDict]

\* the body of mcp_handler once the dependency has produced current_user
Dispatch(body) ==
    IF body = InvalidJson
    THEN JsonRpcErrorResponse(None, -32603, "Internal error", "JSONDecodeError")
    ELSE IF body = JsonArray
    THEN [status_code |-> 500, content |-> [detail |-> "Internal Server Error"],
          headers |-> NoDict]
    ELSE LET method == body.method
             request_id == body.id
         IN
         IF method = Str_initialize THEN JsonRpcResult(request_id, [serverInfo |-> "SIAC Assistant MCP Server"])
         ELSE IF method = Str_tools_list THEN JsonRpcResult(request_id, [tools |-> <<"get_system_info", "query_database">>])
         ELSE IF method = Str_resources_list THEN JsonRpcResult(request_id, [resources |-> <<"siac://system/status">>])
         ELSE IF method = Str_prompts_list THEN JsonRpcResult(request_id, [prompts |-> <<"siac_help">>])
         ELSE IF method = Str_tools_call
         THEN IF body.params = NoDict
              THEN JsonRpcErrorResponse(request_id, -32603, "Internal error", "AttributeError")
              ELSE JsonRpcResult(request_id,
                                 [content |-> [type |-> "text", tool_name |-> body.params.name]])
         ELSE IF method = Str_notifications_initialized
         THEN [status_code |-> 200, content |-> NoDict, headers |-> NoDict]
         ELSE IF method = NoStr
         THEN JsonRpcErrorResponse(request_id, -32603, "Internal error", "AttributeError")
         ELSE IF StartsWith(method, Str_notifications)
         THEN [status_code |-> 200, content |-> NoDict, headers |-> NoDict]
         ELSE IF method = Str_ping THEN JsonRpcResult(request_id, NoDict)
         ELSE MethodNotFound(request_id, method)

\* POST /mcp: the dependency get_current_user runs before the handler body
mcp_handler(authorization, body, t, dt) ==
    /\ gateway = NoDict
    /\ \E credentials \in HTTPBearer(authorization) :
         LET current_user == get_current_user(credentials, t, t + dt)
             response == IF current_user.outcome = "return" THEN Dispatch(body)
                         ELSE IF current_user.outcome = "HTTPException"
                         THEN http_exception_handler(current_user)
                         ELSE [status_code |-> 500,
                               content |-> [detail |-> "Internal Server Error"],
                               headers |-> NoDict]
         IN gateway' = [op |-> "mcp_handler", authorization |-> authorization,
                        request |-> body, at |-> t,
                        handled |-> current_user.outcome = "return",
                        response |-> response]
    /\ UNCHANGED <<authVars, browser>>

\* the protected set with a read-only tool and the unknown name added
protected_tools_wider ==
    {"siac.register_template", "siac.send_broadcast", "siac.validate_template",
     "unknown_tool"}

\* call_tool: the tools that require authentication
protected_tools == {"siac.register_template", "siac.send_broadcast"}

\* the token cut from the header one character early: auth_header[6:]
AuthenticateToolCall_slice6(name, request, t1, t2) ==
    LET auth_header == IF request = NoDict THEN NoStr ELSE request.headers.Authorization IN
    IF auth_header = NoStr \/ auth_header = <<>>
    THEN Unauthorized("Authentication required for tool")
    ELSE IF ~StartsWith(auth_header, Str_Bearer)
    THEN Unauthorized("Invalid authorization header format")
    ELSE LET r == verify_token(SubSeq(auth_header, 7, Len(auth_header)), t1, t2) IN
         IF r.outcome = "ValueError"
         THEN Unauthorized("Authentication verification failed")
         ELSE r

\* call_tool, authentication of a protected tool: the detail of the first
\* rejection also names the tool, which the recorded call holds
AuthenticateToolCall(name, request, t1, t2) ==
    LET auth_header == IF request = NoDict THEN NoStr ELSE request.headers.Authorization IN
    IF auth_header = NoStr \/ auth_header = <<>>
    THEN Unauthorized("Authentication required for tool")
    ELSE IF ~StartsWith(auth_header, Str_Bearer)
    THEN Unauthorized("Invalid authorization header format")
    ELSE LET r == verify_token(SubSeq(auth_header, 8, Len(auth_header)), t1, t2) IN
         IF r.outcome = "ValueError"
         THEN Unauthorized("Authentication verification failed")
         ELSE r

\* str.lower(), on the letters A to Z
UpperLetters ==
    <<"A", "B", "C", "D", "E", "F", "G", "H", "I", "J", "K", "L", "M",
      "N", "O", "P", "Q", "R", "S", "T", "U", "V", "W", "X", "Y", "Z">>
Lower(s) ==
    LET LowerLetters ==
            <<"a", "b", "c", "d", "e", "f", "g", "h", "i", "j", "k", "l", "m",
              "n", "o", "p", "q", "r", "s", "t", "u", "v", "w", "x", "y", "z">>
        LowerChar(c) ==
            IF \E i \in 1..26 : UpperLetters[i] = c
            THEN LowerLetters[CHOOSE i \in 1..26 : UpperLetters[i] = c]
            ELSE c
    IN [i \in 1..Len(s) |-> LowerChar(s[i])]

\* sub in s
Contains(s, sub) ==
    \E i \in 1..(Len(s) - Len(sub) + 1) : SubSeq(s, i, i + Len(sub) - 1) = sub

\* s.endswith(suffix)
EndsWith(s, suffix) ==
    Len(s) >= Len(suffix) /\ SubSeq(s, Len(s) - Len(suffix) + 1, Len(s)) = suffix

\* words the read-only handlers look for
Str_open_braces == <<"{","{">>
Str_close_braces == <<"}","}">>

\* the text of a tool result: the f-string of the handlers joins the
\* summary, "Structured Data: {structured_content}" and "Meta Data:
\* {detailed_meta}" into the one text of the one TextContent
ToolText(content_message, structured_content, detailed_meta) ==
    <<[type |-> "text",
       text |-> <<[section |-> "content_message", value |-> content_message],
                  [section |-> "Structured Data", value |-> structured_content],
                  [section |-> "Meta Data", value |-> detailed_meta]>>]>>

\* handle_validate_template at time t; hash(template_name) is kept symbolic,
\* the suggestion that goes with each message and the fixed list of rule
\* names are left out
handle_validate_template(arguments, t) ==
    LET template_name == IF arguments.template_name = None THEN "Unknown Template"
                         ELSE arguments.template_name
        body_text == IF arguments.body_text = NoStr THEN <<>> ELSE arguments.body_text
        category == IF arguments.category = None THEN "Marketing" ELSE arguments.category
        language_code == IF arguments.language_code = None THEN "es_ES"
                         ELSE arguments.language_code
        lowered == Lower(body_text)
        finding ==
            IF Len(body_text) < 10
            THEN "Template body too short for Meta requirements"
            ELSE IF Contains(lowered, <<"s","p","a","m">>) \/ Contains(lowered, <<"u","r","g","e","n","t">>)
            THEN "Contains prohibited promotional language"
            ELSE IF Contains(body_text, Str_open_braces) /\ ~Contains(body_text, Str_close_braces)
            THEN "Mismatched curly braces in template variables"
            ELSE IF StartsWith(body_text, Str_open_braces) \/ EndsWith(body_text, Str_close_braces)
            THEN "Template cannot start or end with a parameter"
            ELSE IF category = "Marketing" /\ Len(body_text) > 1000
            THEN "Marketing template exceeds recommended length"
            ELSE None
        failed == finding \notin {None, "Marketing template exceeds recommended length"}
        validation_status == IF failed THEN "FAILED" ELSE "SUCCESS"
        passed_internal_checks == ~failed
        detailed_errors ==
            IF finding = None THEN <<>>
            ELSE <<[field |-> "body_text", message |-> finding,
                    severity |-> IF failed THEN "error" ELSE "warning"]>>
        client_id == [prefix |-> "client_", hash_of |-> template_name]
        structured_content ==
            [validation_status |-> validation_status, template_name |-> template_name,
             passed_internal_checks |-> passed_internal_checks, category |-> category,
             language_code |-> language_code, client_id |-> client_id]
        content_message ==
            [template_name |-> template_name,
             summary |-> IF validation_status = "SUCCESS"
                         THEN "validation completed successfully"
                         ELSE "validation failed"]
        detailed_meta ==
            [raw_payload_for_preview |->
                 [template_name |-> template_name, body_text |-> body_text,
                  category |-> category, language_code |-> language_code,
                  validation_timestamp |-> t,
                  estimated_review_time |-> "24-48 hours"],
             template_html_mockup |->
                 [template_name |-> template_name, category |-> category,
                  body |-> ReplaceFrom(ReplaceFrom(body_text, 1, <<"{","{","1","}","}">>,
                                                   <<"J","o","h","n">>),
                                       1, <<"{","{","2","}","}">>,
                                       <<"P","r","e","m","i","u","m">>),
                  language_code |-> language_code],
             raw_validation_errors |->
                 [errors |-> detailed_errors, overall_status |-> validation_status]]
    IN ToolText(content_message, structured_content, detailed_meta)

\* handle_get_campaign_metrics; rates are in percent, the rates of
\* performance_metrics and quality_metrics in thousandths, total_cost in
\* cents, cost_per_message and cost_per_delivery in ten-thousandths
handle_get_campaign_metrics(arguments) ==
    LET campaign_id == IF arguments.campaign_id = NoStr THEN <<"u","n","k","n","o","w","n">>
                       ELSE arguments.campaign_id
        lowered == Lower(campaign_id)
        scenario == IF Contains(lowered, <<"t","e","s","t">>) THEN "test"
                    ELSE IF Contains(lowered, <<"d","e","m","o">>) THEN "demo"
                    ELSE IF Contains(lowered, <<"e","r","r","o","r">>) THEN "error"
                    ELSE IF Contains(lowered, <<"p","a","c","i","n","g">>) THEN "pacing"
                    ELSE "other"
        delivery_rate == CASE scenario = "test" -> 87 [] scenario = "demo" -> 99
                           [] scenario = "error" -> 45 [] scenario = "pacing" -> 92
                           [] OTHER -> 95
        status == CASE scenario \in {"test", "pacing"} -> "RUNNING"
                    [] scenario = "error" -> "FAILED"
                    [] OTHER -> "COMPLETED"
        quality_score == CASE scenario \in {"test", "pacing"} -> "YELLOW"
                           [] scenario = "error" -> "RED"
                           [] OTHER -> "GREEN"
        template_pacing_active == scenario \in {"test", "pacing"}
        meta_errors ==
            IF scenario = "error"
            THEN <<[error_code |-> 131049, count |-> 150,
                    error_message |-> "Marketing message limit per user exceeded"],
                   [error_code |-> 131026, count |-> 125,
                    error_message |-> "Message failed to send"]>>
            ELSE <<>>
        total_sent == 1250
        delivered == (total_sent * delivery_rate) \div 100
        failed == total_sent - delivered
        byQuality(green, yellow, red) ==
            IF quality_score = "GREEN" THEN green
            ELSE IF quality_score = "YELLOW" THEN yellow ELSE red
        structured_content ==
            [campaign_id |-> campaign_id, delivery_rate |-> delivery_rate,
             status |-> status, quality_score |-> quality_score,
             total_sent |-> total_sent, delivered |-> delivered, failed |-> failed]
        content_message ==
            [campaign_id |-> campaign_id, status |-> status,
             delivery_rate |-> delivery_rate, quality_score |-> quality_score,
             closing |-> CASE status = "COMPLETED" -> "finished successfully"
                           [] status = "RUNNING" -> "currently active"
                           [] OTHER -> "encountered issues"]
        detailed_meta ==
            [campaign_id |-> campaign_id, delivery_rate |-> delivery_rate,
             status |-> status, quality_score |-> quality_score,
             total_sent |-> total_sent, delivered |-> delivered, failed |-> failed,
             performance_metrics |->
                 [delivery_rate |-> delivery_rate, open_rate |-> byQuality(230, 150, 80),
                  click_rate |-> byQuality(50, 30, 10),
                  response_rate |-> byQuality(20, 15, 5)],
             quality_metrics |->
                 [quality_score |-> quality_score, spam_score |-> byQuality(10, 60, 150),
                  engagement_score |-> byQuality(150, 120, 30)],
             timeline |->
                 [started_at |-> "2024-01-20T10:00:00Z",
                  completed_at |-> IF status = "COMPLETED" THEN "2024-01-20T18:30:00Z"
                                   ELSE None,
                  duration_hours |-> IF status = "COMPLETED" THEN "8.5" ELSE None],
             cost_analysis |->
                 [total_cost |-> (total_sent * 15) \div 10, cost_per_message |-> 150,
                  cost_per_delivery |->
                      IF delivery_rate > 0
                      THEN (2 * 15000 + delivery_rate) \div (2 * delivery_rate)
                      ELSE 150],
             pacing_status |->
                 [template_pacing_active |-> template_pacing_active,
                  held_messages |-> IF template_pacing_active THEN 45 ELSE 0,
                  pacing_reason |-> IF template_pacing_active
                                    THEN "Evaluación de calidad por Meta" ELSE None],
             meta_errors |-> meta_errors]
    IN ToolText(content_message, structured_content, detailed_meta)

\* call_tool, dispatch to the tool handler at time t
ExecuteTool(name, arguments, t) ==
    IF name = "get_user_info"
    THEN [outcome |-> "return", handler |-> "get_user_info", action |-> None]
    ELSE IF name = "test_protected_action"
    THEN [outcome |-> "return", handler |-> "test_protected_action",
          action |-> IF arguments.action = None THEN "unknown" ELSE arguments.action]
    ELSE IF name = "siac.validate_template"
    THEN [outcome |-> "return", handler |-> "handle_validate_template", action |-> None,
          content |-> handle_validate_template(arguments, t)]
    ELSE IF name = "siac.get_campaign_metrics"
    THEN [outcome |-> "return", handler |-> "handle_get_campaign_metrics", action |-> None,
          content |-> handle_get_campaign_metrics(arguments)]
    ELSE IF name = "siac.register_template"
    THEN [outcome |-> "return", handler |-> "handle_register_template", action |-> None]
    ELSE IF name = "siac.send_broadcast"
    THEN [outcome |-> "return", handler |-> "handle_send_broadcast", action |-> None]
    ELSE [outcome |-> "JSONRPCError", code |-> -32601, message |-> "Unknown tool"]

\* call_tool(name, arguments, request)
call_tool(name, arguments, request, t, dt) ==
    /\ gateway = NoDict
    /\ LET auth == IF name \in protected_tools
                   THEN AuthenticateToolCall(name, request, t, t + dt)
                   ELSE [outcome |-> "return"]
           result == IF auth.outcome = "return" THEN ExecuteTool(name, arguments, t + dt)
                     ELSE auth
       IN gateway' = [op |-> "call_tool", name |-> name, arguments |-> arguments,
                      request |-> request, at |-> t, result |-> result]
    /\ UNCHANGED <<authVars, browser>>

\* TokenVerifier.verify_token called on a token string
VerifyToken(tok, t, dt) ==
    /\ gateway = NoDict
    /\ gateway' = [op |-> "verify_token", token |-> tok, at |-> t, checked_at |-> t + dt,
                   result |-> verify_token(tok, t, t + dt)]
    /\ UNCHANGED <<authVars, browser>>

\* the checks of verify_token on parsed claims
CheckTokenClaims(tok, token_claims, t, dt) ==
    /\ gateway = NoDict
    /\ gateway' = [op |-> "check_claims", token |-> tok, claims |-> token_claims,
                   checked_at |-> t + dt, result |-> CheckClaims(tok, token_claims, t + dt)]
    /\ UNCHANGED <<authVars, browser>>

\* Inputs of the resource server
MaxTokLen == 2
Tokens ==
    {Str_valid_token, Str_expired_token, Str_invalid_issuer, Str_missing_scope,
     Str_invalid_audience, Str_malformed_token, Str_eyJ,
     <<"e","y","J",".","a",".","b">>,
     <<"a",".","b",".","c">>,
     <<"a",".",".","c">>,
     <<"a",".","b",".","c",".","d">>,
     <<"a",".","b","!",".","c">>,
     <<"a", ".", "b", ".", "c", "\n">>,
     <<"\t">>,
     AccessTokenPrefix,
     AccessTokenPrefix \o AccessTokenPrefix \o <<"x">>,
     AccessTokenPrefix \o <<"0","1","2","3","4","5","6","7","8","9","a","b","c","d","e","f">>}
    \cup {AccessTokenName(r) : r \in Reqs}
    \cup UNION {[1..n -> {" ", ".", "a", "!"}] : n \in 0..MaxTokLen}

AuthorizationValues ==
    {Str_Bearer \o tok : tok \in Tokens}
    \cup {<<"B","a","s","i","c"," ","a","b","c">>,
          <<"b","e","a","r","e","r"," ","v","a","l","i","d","_","t","o","k","e","n">>,
          <<"B","e","a","r","e","r">>,
          Str_valid_token}

ToolNames ==
    {"get_user_info", "test_protected_action", "siac.validate_template",
     "siac.get_campaign_metrics", "siac.register_template", "siac.send_broadcast",
     "unknown_tool"}
\* arguments of a tool call; a key that is left out is None, or NoStr where
\* the value is text the handler looks into
NoArguments ==
    [action |-> None, template_name |-> None, body_text |-> NoStr, category |-> None,
     language_code |-> None, campaign_id |-> NoStr]
ToolArguments ==
    {NoArguments, [NoArguments EXCEPT !.action = "read"]}
    \cup {[NoArguments EXCEPT !.body_text = b, !.template_name = "promo",
                              !.category = c] :
             b \in {NoStr, <<"h","i">>,
                    <<"H","e","l","l","o"," ","{","{","1","}","}"," ","f","r","i","e","n","d">>,
                    <<"U","R","G","E","N","T"," ","o","f","f","e","r","s">>,
                    <<"H","e","l","l","o"," ","{","{","1"," ","f","r","i","e","n","d">>,
                    <<"{","{","1","}","}"," ","w","e","l","c","o","m","e">>},
             c \in {None, "Utility"}}
    \cup {[NoArguments EXCEPT !.campaign_id = c] :
             c \in {NoStr, <<"T","e","s","t","-","1">>, <<"d","e","m","o">>,
                    <<"e","r","r","o","r","_","7">>, <<"p","a","c","i","n","g">>,
                    <<"c","4","2">>}}
\* the tool calls made: every tool with the plain arguments, the read-only
\* tools with the arguments they read
ToolCalls ==
    {[name |-> n, arguments |-> a] :
        n \in ToolNames, a \in {NoArguments, [NoArguments EXCEPT !.action = "read"]}}
    \cup {[name |-> "siac.validate_template", arguments |-> a] :
            a \in {x \in ToolArguments : x.template_name # None}}
    \cup {[name |-> "siac.get_campaign_metrics", arguments |-> a] :
            a \in {x \in ToolArguments : x.campaign_id # NoStr}}
RequestIds == {"1", None}
JsonRpcBodies ==
    {InvalidJson, JsonArray}
    \cup {[method |-> m, id |-> i, params |-> [name |-> None]] :
            m \in {Str_initialize, Str_tools_list, Str_resources_list, Str_prompts_list,
                   Str_notifications_initialized,
                   Str_notifications \o <<"c","a","n","c","e","l","l","e","d">>,
                   Str_ping, <<"f","o","o","/","b","a","r">>, <<>>,
                   <<"n","o","t","i","f","i","c","a","t","i","o","n","s">>,
                   Str_ping \o <<"s">>, NoStr},
            i \in RequestIds}
    \cup {[method |-> Str_tools_call, id |-> i, params |-> [name |-> n]] :
            n \in ToolNames \cup {None}, i \in RequestIds}
    \cup {[method |-> Str_tools_call, id |-> "1", params |-> NoDict]}

\* clock readings (epoch seconds) and the time between two readings of one call
ClockReadings == {1762000000, 1762003600}
Elapsed == {0, 1}

\* claims whose fields take the values _parse_token gives them, in any
\* combination
ClaimSets(t) ==
    {MockClaims(iss, aud, "user123", scope, exp, t, "siac-client") :
        iss \in {issuer_url, "https://invalid-issuer.com"},
        aud \in {audience, "https://wrong-audience.com"},
        scope \in {required_scope, required_scope \o <<" ">> \o Str_read_scope,
                   Str_read_scope},
        exp \in {t + 3600, t - 3600}}

\* header values arrive over HTTP with no white space at either end
NextGateway ==
    \/ \E a \in {NoStr} \cup {h \in AuthorizationValues :
                                 /\ h # <<>>
                                 /\ h[1] \notin Whitespace
                                 /\ h[Len(h)] \notin Whitespace},
          b \in JsonRpcBodies, t \in ClockReadings, dt \in Elapsed :
         mcp_handler(a, b, t, dt)
    \/ \E c \in ToolCalls,
          req \in {NoDict} \cup {[headers |-> [Authorization |-> h]] :
                                  h \in {NoStr} \cup AuthorizationValues},
          t \in ClockReadings, dt \in Elapsed :
         call_tool(c.name, c.arguments, req, t, dt)
    \/ \E tok \in Tokens \cup {Str_Bearer \o x : x \in Tokens},
          t \in ClockReadings, dt \in Elapsed :
         VerifyToken(tok, t, dt)
    \/ \E tok \in {Str_valid_token, <<"a",".","b",".","c">>, <<"a",".","b">>},
          t \in ClockReadings, dt \in Elapsed :
         \E c \in ClaimSets(t) : CheckTokenClaims(tok, c, t, dt)

SpecGateway == Init /\ [][NextGateway]_vars

\* a token from issuance to the resource server: one user logs in asking for
\* either scope, clients present the code with either redirect_uri and a scope
\* or client_id of their own, and the token the authorization server stored
\* is given to verify_token
NextResource ==
    \/ \E f \in {x \in LoginForms : x.email = "admin@siac.com" /\ x.password = "admin123"} :
         Login(f)
    \/ \E r \in Reqs, body \in BindingTokenBodies : token(r, body)
    \/ \E r \in Reqs : tokenExchange(r)
    \/ \E tok \in DOMAIN minted, t \in ClockReadings, dt \in Elapsed :
         VerifyToken(tok, t, dt)

SpecResource == Init /\ [][NextResource]_vars

----------------------------------------------------------------------------
\* Properties

\* the requests that called get_authorization_code on code c
Callers(c) == {r \in Reqs : tokenReq[r].call # NoDict /\ tokenReq[r].call.code = c}

\* C1 as stated: the first get_authorization_code(c) of an issued code returns
\* the stored record and removes the code, and every later one returns None.
C1_SingleUseAsStated ==
    \A c \in DOMAIN issued : \A r \in Callers(c) :
        /\ c \notin DOMAIN authorization_codes
        /\ tokenReq[r].call.first => tokenReq[r].call.result = issued[c]
        /\ ~tokenReq[r].call.first => tokenReq[r].call.result = NoDict

\* C1 amended: the first get_authorization_code(c) of an issued code removes
\* the code and returns the stored record when the code has not expired (None
\* when it has), and every later get_authorization_code(c) returns None.
C1_SingleUse ==
    \A c \in DOMAIN issued : \A r \in Callers(c) :
        LET call == tokenReq[r].call IN
        /\ c \notin DOMAIN authorization_codes
        /\ call.first =>
              call.result = IF call.at > issued[c].expires_at THEN NoDict ELSE issued[c]
        /\ ~call.first => call.result = NoDict

\* a code was retrieved twice: the first call got the record, a later one None
C1_Witness ==
    \E c \in DOMAIN issued : \E r1, r2 \in Callers(c) :
        /\ tokenReq[r1].call.first /\ tokenReq[r1].call.result = issued[c]
        /\ ~tokenReq[r2].call.first /\ tokenReq[r2].call.result = NoDict

\* the requests racing on code c have all completed, each presented the
\* redirect_uri stored with c, and c had not expired when they were made
RaceOver(c) ==
    /\ Cardinality(Callers(c)) >= 2
    /\ \A r \in Callers(c) :
          /\ tokenReq[r].pc = "done"
          /\ tokenReq[r].call.redirect_uri = issued[c].redirect_uri
          /\ tokenReq[r].call.at <= issued[c].expires_at

\* C2: when N >= 2 authorization_code requests race on the same unexpired
\* code with the matching redirect_uri, exactly one gets 200 and one stored
\* access token, and every other one gets 400.
C2_ExactlyOneWinner ==
    \A c \in DOMAIN issued :
        RaceOver(c) =>
            /\ Cardinality({r \in Callers(c) : tokenReq[r].resp.status = 200}) = 1
            /\ \A r \in Callers(c) : tokenReq[r].resp.status \in {200, 400}
            /\ Cardinality({t \in DOMAIN minted : minted[t].code = c}) = 1

\* a race on one code is over, with a winner and a loser
C2_Witness ==
    \E c \in DOMAIN issued :
        /\ RaceOver(c)
        /\ \E r1, r2 \in Callers(c) : /\ tokenReq[r1].resp.status = 200
                                      /\ tokenReq[r2].resp.status = 400

\* request r got a code record whose redirect_uri is not the one it presented
Mismatch(r) ==
    /\ tokenReq[r].call # NoDict
    /\ tokenReq[r].call.result # NoDict
    /\ tokenReq[r].call.redirect_uri # tokenReq[r].call.result.redirect_uri

\* C3: an exchange whose redirect_uri differs from the one stored with the
\* code fails with 400 and stores no access token, although the code exists
\* and is unexpired.
C3_RedirectUriBinding ==
    /\ \A r \in Reqs : Mismatch(r) /\ tokenReq[r].pc = "done" =>
          tokenReq[r].resp.status = 400
    /\ \A t \in DOMAIN minted : ~Mismatch(minted[t].by)

\* an exchange of a stored, unexpired code with the wrong redirect_uri is over
C3_Witness ==
    \E r \in Reqs : /\ Mismatch(r)
                    /\ tokenReq[r].pc = "done"
                    /\ tokenReq[r].call.at <= tokenReq[r].call.result.expires_at

\* request r exchanged a code successfully
Exchanged(r) ==
    /\ tokenReq[r].pc = "done"
    /\ tokenReq[r].call # NoDict
    /\ tokenReq[r].resp.status = 200

\* C4: after a successful exchange of a code issued with scope S, the scope of
\* the response and the scope stored with the minted token equal S, whatever
\* scope the request body carried.
C4_ScopeFidelity ==
    \A r \in Reqs : Exchanged(r) =>
        LET S == issued[tokenReq[r].call.code].scope
            t == tokenReq[r].resp.access_token
        IN /\ tokenReq[r].resp.scope = S
           /\ t \in DOMAIN minted
           /\ minted[t].record.scope = S

\* a successful exchange whose body asked for another scope than the code's
C4_Witness ==
    \E r \in Reqs : /\ Exchanged(r)
                    /\ tokenReq[r].call.scope # None
                    /\ tokenReq[r].call.scope # issued[tokenReq[r].call.code].scope

\* C5: a code expires 10 minutes after issuance; get_authorization_code
\* returns the record when now <= expires_at and None when now > expires_at,
\* and in the expired case the code is removed all the same.
C5_CodeExpiry ==
    \A c \in DOMAIN issued :
        /\ issued[c].expires_at = issued[c].created_at + 10
        /\ \A r \in Callers(c) :
              LET call == tokenReq[r].call IN
              /\ call.first /\ call.at <= issued[c].expires_at => call.result = issued[c]
              /\ call.at > issued[c].expires_at =>
                    call.result = NoDict /\ c \notin DOMAIN authorization_codes

\* a code was retrieved for the first time one minute after it expired
C5_Witness ==
    \E c \in DOMAIN issued : \E r \in Callers(c) :
        /\ tokenReq[r].call.first
        /\ tokenReq[r].call.at = issued[c].expires_at + 1
        /\ tokenReq[r].call.result = NoDict

\* C6: a token expires 24 hours after issuance; get_token_info returns the
\* record only while the token is stored and now <= expires_at; the first
\* call with now > expires_at removes the token and returns None, and so does
\* every later call.
C6_TokenExpiry ==
    /\ \A t \in DOMAIN minted :
          minted[t].record.expires_at = minted[t].record.created_at + 1440
    /\ \A t \in DOMAIN active_tokens : t \in DOMAIN minted /\ t \notin evicted
    /\ lastInfo # NoDict =>
          LET t == lastInfo.token IN
          /\ lastInfo.result # NoDict =>
                /\ lastInfo.stored
                /\ lastInfo.at <= minted[t].record.expires_at
                /\ lastInfo.result.scope = minted[t].record.scope
                /\ lastInfo.result.expires_at = minted[t].record.expires_at
          /\ t \in DOMAIN minted /\ lastInfo.at > minted[t].record.expires_at =>
                /\ lastInfo.result = NoDict
                /\ t \notin DOMAIN active_tokens
          /\ lastInfo.evictedBefore => lastInfo.result = NoDict

\* get_token_info was called on a token an earlier call had evicted
C6_Witness ==
    /\ lastInfo # NoDict
    /\ lastInfo.evictedBefore
    /\ lastInfo.token \in DOMAIN minted

\* Tool gateway and token verifier

\* the Authorization header of the recorded tools/call, NoStr when there is none
PresentedAuthorization ==
    IF gateway.op = "mcp_handler" THEN gateway.authorization
    ELSE IF gateway.request = NoDict THEN NoStr
    ELSE gateway.request.headers.Authorization

\* the recorded request is a tools/call naming a registered tool
IsToolsCall ==
    /\ gateway # NoDict
    /\ \/ gateway.op = "call_tool" /\ gateway.name # "unknown_tool"
       \/ /\ gateway.op = "mcp_handler"
          /\ "method" \in DOMAIN gateway.request
          /\ gateway.request.method = Str_tools_call
          /\ gateway.request.params # NoDict
          /\ gateway.request.params.name \in ToolNames \ {"unknown_tool"}

CalledTool ==
    IF gateway.op = "call_tool" THEN gateway.name ELSE gateway.request.params.name

\* status, challenge scope and success of the recorded tools/call
CallStatus ==
    IF gateway.op = "mcp_handler" THEN gateway.response.status_code
    ELSE IF gateway.result.outcome = "HTTPException" THEN gateway.result.status_code
    ELSE 200

CallChallenge ==
    LET h == IF gateway.op = "mcp_handler" THEN gateway.response.headers
             ELSE IF gateway.result.outcome = "HTTPException" THEN gateway.result.headers
             ELSE NoDict
    IN IF h = NoDict THEN NoDict ELSE h.WWW_Authenticate

CallReachedHandler ==
    IF gateway.op = "mcp_handler" THEN gateway.handled
    ELSE gateway.result.outcome = "return"

\* C7: a tools/call with no Authorization header naming a protected tool is
\* answered 401 with a WWW-Authenticate header holding the configured scope
\* and does not reach the tool handler; one naming a non-protected tool
\* succeeds.
C7_AuthGateAsStated ==
    (IsToolsCall /\ PresentedAuthorization = NoStr) =>
        IF CalledTool \in {"siac.register_template", "siac.send_broadcast"}
        THEN /\ CallStatus = 401
             /\ CallChallenge # NoDict
             /\ "scope" \in DOMAIN CallChallenge
             /\ CallChallenge.scope = required_scope
             /\ ~CallReachedHandler
        ELSE CallStatus = 200 /\ CallReachedHandler

\* the recorded request is a POST /mcp whose method is a lifecycle or a
\* capability discovery method
IsDiscoveryRequest ==
    /\ gateway # NoDict
    /\ gateway.op = "mcp_handler"
    /\ "method" \in DOMAIN gateway.request
    /\ gateway.request.method # NoStr
    /\ \/ gateway.request.method \in {Str_initialize, Str_ping, Str_tools_list,
                                      Str_resources_list, Str_prompts_list}
       \/ StartsWith(gateway.request.method, Str_notifications)

\* C8: a POST /mcp whose method is initialize, ping, notifications/*,
\* tools/list, resources/list or prompts/list is answered with its normal
\* result whatever Authorization header comes with it, none included.
C8_DiscoveryNeverGatedAsStated ==
    IsDiscoveryRequest =>
        /\ gateway.response.status_code = 200
        /\ gateway.handled
        /\ "error" \notin DOMAIN gateway.response.content

\* a rejection with HTTP 401 and the given reason
RejectedAs(res, detail) ==
    res.outcome = "HTTPException" /\ res.status_code = 401 /\ res.detail = detail

\* C9: the verifier checks empty token, parse, issuer, audience, expiry and
\* scope in this order and the first failing check gives the reason: a wrong
\* issuer is "Invalid token issuer" whatever the audience, expiry and scope,
\* an expired token is "Token has expired" whatever its scope.
C9_CheckOrder ==
    /\ (gateway # NoDict /\ gateway.op = "check_claims") =>
         LET c == gateway.claims
             res == gateway.result
             badIss == c.iss # "https://auth.siac-app.com"
             badAud == c.aud # "siac-assistant"
             expired == c.exp < gateway.checked_at
             noScope == c.scope \notin {required_scope,
                                        required_scope \o <<" ">> \o Str_read_scope}
         IN /\ badIss => RejectedAs(res, "Invalid token issuer")
            /\ (~badIss /\ badAud) => RejectedAs(res, "Invalid token audience")
            /\ (~badIss /\ ~badAud /\ expired) => RejectedAs(res, "Token has expired")
            /\ (~badIss /\ ~badAud /\ ~expired /\ noScope) =>
                   RejectedAs(res, "Missing required scope: siac.user.full_access")
    /\ (gateway # NoDict /\ gateway.op = "verify_token") =>
         LET tok == gateway.token
             res == gateway.result
         IN /\ (\A i \in 1..Len(tok) : tok[i] \in {" ", "\t", "\n", "\r"}) =>
                   RejectedAs(res, "Access token is required")
            /\ tok = Str_malformed_token => RejectedAs(res, "Token verification failed")
            /\ tok = Str_invalid_issuer => RejectedAs(res, "Invalid token issuer")
            /\ tok = Str_invalid_audience => RejectedAs(res, "Invalid token audience")
            /\ tok = Str_expired_token => RejectedAs(res, "Token has expired")
            /\ tok = Str_missing_scope =>
                   RejectedAs(res, "Missing required scope: siac.user.full_access")

\* claims that are expired and lack the scope were rejected as expired
C9_Witness ==
    /\ gateway # NoDict
    /\ gateway.op = "check_claims"
    /\ gateway.claims.iss = issuer_url
    /\ gateway.claims.aud = audience
    /\ gateway.claims.exp < gateway.checked_at
    /\ gateway.claims.scope = Str_read_scope
    /\ gateway.result.outcome = "HTTPException"
    /\ gateway.result.detail = "Token has expired"

\* C10: whatever the token string, verify_token returns the claims or raises
\* an HTTP 401 whose WWW-Authenticate is Bearer with the realm of the
\* resource server and the required scope; nothing else leaves it.
C10_RejectionShape ==
    (gateway # NoDict /\ gateway.op = "verify_token") =>
        /\ gateway.result.outcome \in {"return", "HTTPException"}
        /\ gateway.result.outcome = "HTTPException" =>
             /\ gateway.result.status_code = 401
             /\ gateway.result.headers =
                  [WWW_Authenticate |-> [scheme |-> "Bearer",
                                         realm |-> "https://api.siac-app.com/mcp",
                                         scope |-> required_scope]]

\* a token that does not parse was rejected by the handler of unexpected errors
C10_Witness ==
    /\ gateway # NoDict
    /\ gateway.op = "verify_token"
    /\ gateway.token = Str_Bearer \o <<"a", "!">>
    /\ gateway.result.outcome = "HTTPException"
    /\ gateway.result.status_code = 401
    /\ gateway.result.detail = "Token verification failed"

\* the words of scope, cut at white space, include word
HasScopeWord(scope, word) ==
    \E i \in 1..Len(scope) :
        /\ i + Len(word) - 1 <= Len(scope)
        /\ SubSeq(scope, i, i + Len(word) - 1) = word
        /\ (i = 1 \/ scope[i - 1] \in {" ", "\t", "\n", "\r"})
        /\ (i + Len(word) - 1 = Len(scope) \/ scope[i + Len(word)] \in {" ", "\t", "\n", "\r"})

\* C11: claims that verify_token returns have the configured issuer and
\* audience, an expiry that is not in the past and a scope that contains the
\* required scope.
C11_TrustedClaims ==
    (/\ gateway # NoDict
     /\ gateway.op \in {"verify_token", "check_claims"}
     /\ gateway.result.outcome = "return") =>
        LET c == gateway.result.claims IN
        /\ c.iss = "https://auth.siac-app.com"
        /\ c.aud = "siac-assistant"
        /\ c.exp >= gateway.checked_at
        /\ HasScopeWord(c.scope, required_scope)

\* verify_token returned the claims of valid_token
C11_Witness ==
    /\ gateway # NoDict
    /\ gateway.op = "verify_token"
    /\ gateway.token = Str_valid_token
    /\ gateway.result.outcome = "return"
    /\ gateway.result.claims.sub = "user123"

\* the recorded call names a protected tool and reached its handler
ProtectedCallAccepted ==
    /\ gateway # NoDict
    /\ gateway.op = "call_tool"
    /\ gateway.name \in {"siac.register_template", "siac.send_broadcast"}
    /\ gateway.result.outcome = "return"

\* C12: a protected tool runs only for a token that has an unexpired record
\* in the token store of the authorization server.
C12_StoreBackedAsStated ==
    ProtectedCallAccepted =>
        LET tok == SubSeq(PresentedAuthorization, 8, Len(PresentedAuthorization)) IN
        /\ tok \in DOMAIN active_tokens
        /\ now <= active_tokens[tok].expires_at

\* the recorded call names a protected tool and presents Bearer <token> with
\* a token the verifier accepts
ProtectedCallWithValidToken ==
    /\ gateway # NoDict
    /\ gateway.op = "call_tool"
    /\ gateway.name \in {"siac.register_template", "siac.send_broadcast"}
    /\ PresentedAuthorization # NoStr
    /\ Len(PresentedAuthorization) >= 7
    /\ SubSeq(PresentedAuthorization, 1, 7) = Str_Bearer
    /\ \E dt \in Elapsed :
         verify_token(SubSeq(PresentedAuthorization, 8, Len(PresentedAuthorization)),
                      gateway.at, gateway.at + dt).outcome = "return"

\* C13: a tools/call for a protected tool with Authorization: Bearer <token>,
\* the token passing the verifier, reaches the handler of that tool and
\* returns its result; over POST /mcp it is answered with a JSON-RPC result.
C13_ProtectedToolWithValidToken ==
    /\ ProtectedCallWithValidToken =>
         /\ gateway.result.outcome = "return"
         /\ gateway.name = "siac.register_template" =>
                gateway.result.handler = "handle_register_template"
         /\ gateway.name = "siac.send_broadcast" =>
                gateway.result.handler = "handle_send_broadcast"
    /\ (/\ IsToolsCall
        /\ gateway.op = "mcp_handler"
        /\ CalledTool \in {"siac.register_template", "siac.send_broadcast"}
        /\ gateway.handled) =>
         /\ gateway.response.status_code = 200
         /\ "result" \in DOMAIN gateway.response.content

\* siac.send_broadcast called with Bearer valid_token ran its handler
C13_Witness ==
    /\ gateway # NoDict
    /\ gateway.op = "call_tool"
    /\ gateway.name = "siac.send_broadcast"
    /\ PresentedAuthorization = Str_Bearer \o Str_valid_token
    /\ gateway.result.outcome = "return"
    /\ gateway.result.handler = "handle_send_broadcast"

\* Authorization flow controller

\* the three ways the credentials of a login request can be bad
UnknownEmail(req) == \A u \in DOMAIN users : users[u].email # req.email
WrongPassword(req) ==
    /\ \E u \in DOMAIN users : users[u].email = req.email
    /\ \A u \in DOMAIN users : users[u].email = req.email => users[u].password # req.password
InactiveAccount(req) ==
    \E u \in DOMAIN users :
        /\ users[u].email = req.email
        /\ users[u].password = req.password
        /\ ~users[u].active

\* what a login request carries besides the credentials
Carried(req) ==
    <<req.client_id, req.redirect_uri, req.response_type, req.scope, req.state,
      req.code_challenge, req.code_challenge_method>>

\* C14: a login with an unknown email, a wrong password or an inactive
\* account fails, and two failed logins that carry the same parameters get
\* the same response whichever of the three cases each one is.
C14_UniformFailure ==
    loginResp # NoDict =>
        /\ (\/ UnknownEmail(loginResp.request)
            \/ WrongPassword(loginResp.request)
            \/ InactiveAccount(loginResp.request)) =>
               /\ loginResp.status = 303
               /\ loginResp.location.path = "/oauth/authorize"
        /\ (/\ loginResp.status = 303
            /\ loginResp.before # NoDict
            /\ Carried(loginResp.before.request) = Carried(loginResp.request)) =>
               /\ loginResp.before.status = loginResp.status
               /\ loginResp.before.location = loginResp.location

\* a login to an inactive account was answered as the login with an unknown
\* email before it
C14_Witness ==
    /\ loginResp # NoDict
    /\ loginResp.status = 303
    /\ InactiveAccount(loginResp.request)
    /\ loginResp.before # NoDict
    /\ UnknownEmail(loginResp.before.request)
    /\ Carried(loginResp.before.request) = Carried(loginResp.request)
    /\ loginResp.before.location = loginResp.location

\* the user whose email, password and active flag admit the login request
Authenticates(u, req) ==
    /\ u \in DOMAIN users
    /\ users[u].email = req.email
    /\ users[u].password = req.password
    /\ users[u].active

\* C15: a code enters the code store only in a step in which POST
\* /oauth/login answers 302 to credentials of an active user, the code is
\* the one of that redirect and its user_id is that user; GET
\* /oauth/authorize and failed logins add none.
C15_NoAutoApprove ==
    [][\A c \in DOMAIN authorization_codes' \ DOMAIN authorization_codes :
          /\ loginResp'.status = 302
          /\ loginResp'.location.query[3] = c
          /\ \E u \in DOMAIN users :
                /\ Authenticates(u, loginResp'.request)
                /\ authorization_codes'[c].user_id = u]_vars

\* a code was issued in an attempt that went through a failed login
C15_Witness ==
    /\ browser.pc = "CODE_ISSUED"
    /\ browser.failed
    /\ loginResp.status = 302
    /\ loginResp.location.query[3] \in DOMAIN authorization_codes

\* the parameters of the final redirect as the client reads them
FinalParams == ParseQuery(Quote(browser.location.query))

\* C16: the state of the final redirect is the state the client sent to GET
\* /oauth/authorize, failed logins in between or not; no state sent, none
\* in the redirect.
C16_StateEchoAsStated ==
    browser.pc = "CODE_ISSUED" =>
        IF browser.sent.state = NoStr
        THEN ~HasParam(FinalParams, "state")
        ELSE /\ HasParam(FinalParams, "state")
             /\ GetParam(FinalParams, "state") = browser.sent.state

\* the parameters of the redirect that answers a failed login
ErrorParams == ParseQuery(Quote(loginResp.location.query))

\* a redirect parameter equals the optional value v of the request
CarriesOptional(name, v) ==
    IF v = NoStr THEN ~HasParam(ErrorParams, name)
    ELSE HasParam(ErrorParams, name) /\ GetParam(ErrorParams, name) = v

\* C17: a failed login is answered by a redirect to the authorize step, not
\* a 401, with error=invalid_credentials and the parameters the request
\* carried.
C17_FailedLoginRedirectAsStated ==
    (loginResp # NoDict /\ loginResp.status # 302) =>
        /\ loginResp.status = 303
        /\ loginResp.location.path = "/oauth/authorize"
        /\ HasParam(ErrorParams, "error")
        /\ GetParam(ErrorParams, "error") = <<"invalid_credentials">>
        /\ GetParam(ErrorParams, "response_type") = <<loginResp.request.response_type>>
        /\ GetParam(ErrorParams, "client_id") = <<loginResp.request.client_id>>
        /\ GetParam(ErrorParams, "redirect_uri") = <<loginResp.request.redirect_uri>>
        /\ GetParam(ErrorParams, "scope") = <<loginResp.request.scope>>
        /\ CarriesOptional("state", loginResp.request.state)
        /\ CarriesOptional("code_challenge", loginResp.request.code_challenge)
        /\ CarriesOptional("code_challenge_method", loginResp.request.code_challenge_method)

\* the page shown is the answer to the request the client sent
FirstPage == browser.pc \in {"AWAITING_CREDENTIALS", "ERROR"} /\ ~browser.failed

\* C18: GET /oauth/authorize without response_type, client_id or
\* redirect_uri is answered 400, with a response_type other than code is
\* answered 400, and shows the login form only when both checks pass.
C18_AuthorizeValidation ==
    FirstPage =>
        LET o == browser.sent
            lacking == o.response_type = None \/ o.client_id = None \/ o.redirect_uri = None
        IN /\ lacking => browser.page.status = 400 /\ browser.pc = "ERROR"
           /\ o.response_type # "code" => browser.page.status = 400 /\ browser.pc = "ERROR"
           /\ browser.pc = "AWAITING_CREDENTIALS" =>
                 ~lacking /\ o.response_type = "code" /\ browser.page.status = 200

\* a request complete but for response_type=token was answered 400
C18_Witness ==
    /\ browser.pc = "ERROR"
    /\ browser.sent.response_type = "token"
    /\ browser.sent.client_id # None
    /\ browser.sent.redirect_uri # None
    /\ browser.page.status = 400

HappyExchange(r) ==
    /\ tokenReq[r].pc = "done"
    /\ tokenReq[r].call # NoDict
    /\ tokenReq[r].call.first
    /\ tokenReq[r].call.at <= issued[tokenReq[r].call.code].expires_at
    /\ tokenReq[r].call.redirect_uri = issued[tokenReq[r].call.code].redirect_uri

\* C20: after GET /oauth/authorize with scope S and a login with valid
\* credentials, the first exchange of the issued code, within its lifetime
\* and with the same redirect_uri, is answered 200 with an access token, token_type Bearer,
\* expires_in 86400, a refresh token and scope S, and the access token is
\* stored with an expiry 24 hours after its creation.
C20_HappyPath ==
    \A r \in Reqs :
        (browser.pc = "CODE_ISSUED" /\ browser.sent.scope # None /\ HappyExchange(r)) =>
            LET resp == tokenReq[r].resp IN
            /\ resp.status = 200
            /\ resp.token_type = "Bearer"
            /\ resp.expires_in = 86400
            /\ resp.refresh_token # None
            /\ resp.scope = browser.sent.scope
            /\ resp.access_token \in DOMAIN minted
            /\ minted[resp.access_token].record.scope = browser.sent.scope
            /\ minted[resp.access_token].record.expires_at =
                   minted[resp.access_token].record.created_at + 1440

\* the code of an attempt with scope siac.user.read was exchanged for a token
C20_Witness ==
    \E r \in Reqs :
        /\ browser.pc = "CODE_ISSUED"
        /\ browser.sent.scope = "siac.user.read"
        /\ ~browser.failed
        /\ HappyExchange(r)
        /\ tokenReq[r].call.at > 0
        /\ tokenReq[r].resp.status = 200
        /\ tokenReq[r].resp.access_token \in DOMAIN active_tokens

\* Token store

\* request r was answered 200 by the refresh_token grant
RefreshAnswered(r) ==
    /\ tokenReq[r].pc = "done"
    /\ tokenReq[r].call = NoDict
    /\ tokenReq[r].resp.status = 200

\* C21: the access token returned by a successful refresh has been stored,
\* and get_token_info returns its record until it expires or is revoked.
C21_RefreshStoresTokenAsStated ==
    \A r \in Reqs :
        RefreshAnswered(r) =>
            LET tok == tokenReq[r].resp.access_token IN
            /\ tok \in DOMAIN minted
            /\ (/\ lastInfo # NoDict
                /\ lastInfo.token = tok
                /\ lastInfo.at <= minted[tok].record.expires_at
                /\ ~lastInfo.revokedBefore) => lastInfo.result # NoDict

\* C22: revoke_token(t) removes t and nothing else, leaves the store as it
\* is when t is not stored or was revoked before, and every get_token_info(t)
\* after it returns None.
C22_RevokeIdempotent ==
    /\ lastRevoke # NoDict =>
          LET t == lastRevoke.token
              before == lastRevoke.before
              after == lastRevoke.after
          IN /\ DOMAIN after = DOMAIN before \ {t}
             /\ \A u \in DOMAIN after : after[u] = before[u]
             /\ t \notin DOMAIN before => after = before
             /\ lastRevoke.again => after = before
    /\ (lastInfo # NoDict /\ lastInfo.revokedBefore) =>
          /\ lastInfo.result = NoDict
          /\ lastInfo.status = 401

\* an unexpired stored token was revoked twice and get_token_info was then
\* called on it
C22_Witness ==
    /\ lastRevoke # NoDict
    /\ lastRevoke.again
    /\ lastRevoke.token \in DOMAIN minted
    /\ lastInfo # NoDict
    /\ lastInfo.token = lastRevoke.token
    /\ lastInfo.revokedBefore
    /\ ~lastInfo.evictedBefore
    /\ lastInfo.at <= minted[lastInfo.token].record.expires_at
    /\ lastInfo.result = NoDict

\* C23: the token stored by a successful code exchange has the user_id and
\* the client_id recorded with the code it was exchanged for, whatever
\* client_id the token request carried.
C23_Lineage ==
    \A tok \in DOMAIN minted :
        LET c == minted[tok].code IN
        /\ c \in DOMAIN issued
        /\ minted[tok].record.user_id = issued[c].user_id
        /\ minted[tok].record.client_id = issued[c].client_id

\* a token was minted for a request that carried a client_id other than the
\* one recorded with the code
C23_Witness ==
    \E tok \in DOMAIN minted :
        LET r == minted[tok].by IN
        /\ tokenReq[r].pc = "done"
        /\ tokenReq[r].call.client_id = "other_client"
        /\ issued[minted[tok].code].client_id = "c1"
        /\ issued[minted[tok].code].user_id = "user_002"
        /\ minted[tok].record.user_id = "user_002"
        /\ minted[tok].record.client_id = "c1"

\* request r took code c out of the store and ended without a token
TookAndFailed(r, c) ==
    /\ r \in Callers(c)
    /\ tokenReq[r].pc = "done"
    /\ tokenReq[r].call.first
    /\ tokenReq[r].resp.status # 200

\* C29: a code that a POST /oauth/token request has removed stays absent
\* when that request is cancelled, finds the code expired or answers 400 or
\* 500, and a later request with that code, the right redirect_uri included,
\* is answered 400 as an invalid code.
C29_NoRollback ==
    \A c \in consumed :
        /\ c \notin DOMAIN authorization_codes
        /\ \A r \in Callers(c) :
              ~tokenReq[r].call.first =>
                  /\ tokenReq[r].call.result = NoDict
                  /\ tokenReq[r].pc = "done"
                  /\ tokenReq[r].resp.status = 400
                  /\ tokenReq[r].resp.error = "Código de autorización inválido o expirado"

\* a request that took the code was cancelled, and a retry with the right
\* redirect_uri before the expiry of the code was rejected
C29_Witness ==
    \E c \in consumed : \E r1, r2 \in Callers(c) :
        /\ TookAndFailed(r1, c)
        /\ tokenReq[r1].resp.status = 0
        /\ ~tokenReq[r2].call.first
        /\ tokenReq[r2].call.redirect_uri = issued[c].redirect_uri
        /\ tokenReq[r2].call.at <= issued[c].expires_at
        /\ tokenReq[r2].resp.status = 400

\* the requests answered 200 for code c
Winners(c) == {r \in Callers(c) : tokenReq[r].pc = "done" /\ tokenReq[r].resp.status = 200}

\* C30: for every issued code at most one token request is answered 200 and
\* at most one access token is stored, in every state.
C30_AtMostOneToken ==
    \A c \in DOMAIN issued :
        /\ Cardinality(Winners(c)) <= 1
        /\ Cardinality({tok \in DOMAIN minted : minted[tok].code = c}) <= 1
        /\ Cardinality({r \in Reqs : tokenReq[r].pc = "exchange"
                                      /\ tokenReq[r].call.code = c})
             + Cardinality(Winners(c)) <= 1

\* a code was exchanged once and presented again at once with the same
\* redirect_uri
C30_Witness ==
    \E c \in DOMAIN issued : \E r1, r2 \in Callers(c) :
        /\ r1 \in Winners(c)
        /\ r2 # r1
        /\ tokenReq[r2].pc = "done"
        /\ tokenReq[r2].call.redirect_uri = issued[c].redirect_uri
        /\ tokenReq[r2].call.at = tokenReq[r1].call.at
        /\ Cardinality({tok \in DOMAIN minted : minted[tok].code = c}) = 1

\* JSON-RPC dispatcher

\* the methods mcp_handler has a branch for
IsHandledMethod(method) ==
    \/ method \in {Str_initialize, Str_tools_list, Str_resources_list, Str_prompts_list,
                   Str_tools_call, Str_ping}
    \/ StartsWith(method, Str_notifications)

\* the recorded request reached the body of mcp_handler as a JSON object
\* that has a method name
DispatchedWithMethod ==
    /\ gateway # NoDict
    /\ gateway.op = "mcp_handler"
    /\ gateway.handled
    /\ "method" \in DOMAIN gateway.request
    /\ gateway.request.method # NoStr

\* C24: a request whose method is none of the handled ones is answered with
\* a JSON-RPC error of code -32601 that carries the id of the request and
\* no result.
C24_UnknownMethod ==
    (DispatchedWithMethod /\ ~IsHandledMethod(gateway.request.method)) =>
        LET content == gateway.response.content IN
        /\ gateway.response.status_code = 200
        /\ "error" \in DOMAIN content
        /\ content.error.code = -32601
        /\ content.id = gateway.request.id
        /\ "result" \notin DOMAIN content

\* the method notifications, without the slash, sent with id 1 was answered
\* -32601 with id 1
C24_Witness ==
    /\ DispatchedWithMethod
    /\ gateway.request.method = <<"n","o","t","i","f","i","c","a","t","i","o","n","s">>
    /\ gateway.request.id = "1"
    /\ gateway.response.content.id = "1"
    /\ gateway.response.content.error.code = -32601

\* the requests on which a statement of the try block of mcp_handler raises:
\* a body that is not JSON, a JSON value that is not an object, no method
\* (None has no startswith), tools/call with params null
DispatchFaults(body) ==
    \/ body \in {InvalidJson, JsonArray}
    \/ /\ "method" \in DOMAIN body
       /\ \/ body.method = NoStr
          \/ body.method = Str_tools_call /\ body.params = NoDict

\* C25: a request on which the dispatcher faults is answered with a JSON-RPC
\* error of code -32603 that carries the message of the fault as data, and
\* no request leaves the dispatcher as an unhandled fault.
C25_FaultsCaughtAsStated ==
    (gateway # NoDict /\ gateway.op = "mcp_handler" /\ gateway.handled) =>
        /\ gateway.response.status_code = 200
        /\ DispatchFaults(gateway.request) =>
              /\ "error" \in DOMAIN gateway.response.content
              /\ gateway.response.content.error.code = -32603
              /\ gateway.response.content.error.data # None

\* reason given with the rejection of the recorded tools/call
CallDetail ==
    IF gateway.op = "mcp_handler"
    THEN IF "detail" \in DOMAIN gateway.response.content
         THEN gateway.response.content.detail ELSE None
    ELSE IF gateway.result.outcome = "HTTPException" THEN gateway.result.detail
    ELSE None

\* the recorded request is a tools/call on a protected tool that comes with
\* an Authorization header
ProtectedCallWithHeader ==
    /\ IsToolsCall
    /\ CalledTool \in {"siac.register_template", "siac.send_broadcast"}
    /\ PresentedAuthorization # NoStr
    /\ PresentedAuthorization # <<>>

\* C26: a tools/call on a protected tool whose Authorization header does
\* not start with "Bearer " is answered 401 "Invalid authorization header
\* format" with a WWW-Authenticate header; one whose token the verifier
\* rejects is answered with the 401, the WWW-Authenticate header and the
\* reason of the verifier; the tool handler runs in neither case.
C26_HeaderFailureModesAsStated ==
    ProtectedCallWithHeader =>
        IF ~StartsWith(PresentedAuthorization, Str_Bearer)
        THEN /\ CallStatus = 401
             /\ CallDetail = "Invalid authorization header format"
             /\ CallChallenge # NoDict
             /\ ~CallReachedHandler
        ELSE LET tok == SubSeq(PresentedAuthorization, 8, Len(PresentedAuthorization))
                 verdicts == {verify_token(tok, gateway.at, gateway.at + dt) : dt \in Elapsed}
             IN (\A v \in verdicts : v.outcome = "HTTPException") =>
                    /\ ~CallReachedHandler
                    /\ \E v \in verdicts :
                          /\ CallStatus = v.status_code
                          /\ CallDetail = v.detail
                          /\ CallChallenge = v.headers.WWW_Authenticate

\* Tool results

\* the recorded call returned the result of a read-only tool handler
ReadOnlyToolReturned ==
    /\ gateway # NoDict
    /\ gateway.op = "call_tool"
    /\ gateway.result.outcome = "return"
    /\ "content" \in DOMAIN gateway.result

\* the text the model is given, and in it the structured result and the
\* payload meant for the UI only
VisibleText == gateway.result.content[1].text
StructuredResult ==
    VisibleText[CHOOSE i \in 1..Len(VisibleText) :
                   VisibleText[i].section = "Structured Data"].value
HiddenPayload ==
    VisibleText[CHOOSE i \in 1..Len(VisibleText) :
                   VisibleText[i].section = "Meta Data"].value

\* C27: in the result of a tool call the part the model sees does not hold
\* the hidden payload, and the hidden payload does not hold the whole
\* structured result.
C27_SeparationAsStated ==
    ReadOnlyToolReturned =>
        /\ \A i \in 1..Len(VisibleText) : VisibleText[i].section # "Meta Data"
        /\ \E k \in DOMAIN StructuredResult :
              \/ k \notin DOMAIN HiddenPayload
              \/ HiddenPayload[k] # StructuredResult[k]

\* Error responses

\* the content of the HTTP response to the recorded gateway request
GatewayContent ==
    IF gateway.op = "mcp_handler" THEN gateway.response.content
    ELSE http_exception_handler(gateway.result).content

\* the recorded gateway request was answered with an error
GatewayError ==
    /\ gateway # NoDict
    /\ \/ /\ gateway.op = "mcp_handler"
          /\ \/ gateway.response.status_code >= 400
             \/ "error" \in DOMAIN gateway.response.content
       \/ /\ gateway.op = "call_tool"
          /\ gateway.result.outcome = "HTTPException"

\* C28: every error response has a timestamp and either an error string
\* with a status_code or a JSON-RPC error with code and message.
C28_ErrorShapeAsStated ==
    /\ \A r \in Reqs :
          (tokenReq[r].pc = "done" /\ tokenReq[r].resp.status >= 400) =>
              {"timestamp", "error", "status_code"} \subseteq DOMAIN tokenReq[r].resp
    /\ (browser.pc = "ERROR") =>
          {"timestamp", "error", "status_code"} \subseteq DOMAIN browser.page
    /\ GatewayError =>
          /\ "timestamp" \in DOMAIN GatewayContent
          /\ \/ {"error", "status_code"} \subseteq DOMAIN GatewayContent
             \/ /\ "error" \in DOMAIN GatewayContent
                /\ {"code", "message"} \subseteq DOMAIN GatewayContent.error

\* User records

\* a step of POST /oauth/login, successful or not
LoginStep == loginResp' # loginResp
\* a step of get_token_info that found the token unexpired and looked up its user
LookupStep == lastInfo' # lastInfo /\ lastInfo'.result # NoDict

\* C31: no operation changes the users map; a login changes the code store
\* only by the code it stores and never the token store, and a token lookup
\* that reads the user changes no store.
C31_UsersImmutable ==
    [][/\ users' = users
       /\ LoginStep =>
             /\ active_tokens' = active_tokens
             /\ \A c \in DOMAIN authorization_codes :
                   /\ c \in DOMAIN authorization_codes'
                   /\ authorization_codes'[c] = authorization_codes[c]
             /\ DOMAIN authorization_codes' \ DOMAIN authorization_codes
                   \subseteq DOMAIN issued' \ DOMAIN issued
       /\ LookupStep =>
             /\ active_tokens' = active_tokens
             /\ authorization_codes' = authorization_codes]_vars

\* a login, an exchange, a token lookup and a revocation have all happened
C31_Witness ==
    /\ users = InitUsers
    /\ loginResp # NoDict /\ loginResp.status = 302
    /\ minted # EmptyMap
    /\ lastInfo # NoDict /\ lastInfo.result # NoDict
    /\ lastRevoke # NoDict

\* Parameter validation of POST /oauth/token

\* the form lacks what its grant_type requires, or names no known grant_type
RejectedByValidation(body) ==
    \/ body.grant_type \notin {"authorization_code", "refresh_token"}
    \/ body.grant_type = "authorization_code" /\ body.code = None
    \/ body.grant_type = "authorization_code" /\ body.redirect_uri = None
    \/ body.grant_type = "refresh_token" /\ body.refresh_token = None

\* C32: a token request rejected by parameter validation is answered 400 and
\* leaves the code store and the token store unchanged.
C32_ValidationLeavesStores ==
    [][\A r \in Reqs, body \in FormsTokenBodies :
          (token(r, body) /\ RejectedByValidation(body)) =>
              /\ tokenReq'[r].pc = "done"
              /\ tokenReq'[r].resp.status = 400
              /\ authorization_codes' = authorization_codes
              /\ active_tokens' = active_tokens]_vars

\* a request naming the stored code without redirect_uri was rejected and
\* the code is still stored
C32_Witness ==
    \E r \in Reqs :
        /\ tokenReq[r].pc = "done"
        /\ tokenReq[r].resp.status = 400
        /\ tokenReq[r].resp.error = "redirect_uri requerido"
        /\ authorization_codes # EmptyMap
        /\ consumed = {}

\* PKCE

\* the request reached get_authorization_code and has been answered
Answered(r) == tokenReq[r].pc = "done" /\ tokenReq[r].call # NoDict
\* the record get_authorization_code returned matches the request's redirect_uri
Granted(r) ==
    /\ tokenReq[r].call.result # NoDict
    /\ tokenReq[r].call.result.redirect_uri = tokenReq[r].call.redirect_uri

\* C33: the outcome of an exchange is determined by the code record and the
\* redirect_uri alone, whatever code_verifier the request carries: 200 and a
\* token with the record's user, client and scope, or 400.
C33_VerifierIgnored ==
    \A r \in Reqs :
        Answered(r) =>
            IF Granted(r)
            THEN /\ tokenReq[r].resp.status = 200
                 /\ AccessTokenName(r) \in DOMAIN minted
                 /\ minted[AccessTokenName(r)].record.user_id = tokenReq[r].call.result.user_id
                 /\ minted[AccessTokenName(r)].record.client_id = tokenReq[r].call.result.client_id
                 /\ minted[AccessTokenName(r)].record.scope = tokenReq[r].call.result.scope
            ELSE /\ tokenReq[r].resp.status = 400
                 /\ AccessTokenName(r) \notin DOMAIN minted

\* a code stored with a code_challenge was exchanged by a request whose
\* code_verifier is another text, and the token was issued
C33_Witness ==
    \E r \in Reqs :
        /\ Answered(r) /\ Granted(r)
        /\ tokenReq[r].call.result.code_challenge = <<"c", "h">>
        /\ tokenReq[r].call.code_verifier = <<"z">>
        /\ tokenReq[r].resp.status = 200

\* Tokens of the authorization server at the resource server

\* verify_token was called on a token the authorization server stored
VerifiedMinted ==
    /\ gateway # NoDict
    /\ gateway.op = "verify_token"
    /\ gateway.token \in DOMAIN minted

\* C34: for a token the authorization server minted, the claims verify_token
\* returns carry exactly the required scope, whatever scope was stored with
\* the token, and the token is never rejected for a missing scope.
C34_MintedTokenScope ==
    VerifiedMinted =>
        /\ StartsWith(gateway.token, AccessTokenPrefix)
        /\ gateway.result.outcome = "return"
        /\ gateway.result.claims.scope = required_scope

\* a token stored with the scope siac.user.read was accepted by verify_token
C34_Witness ==
    /\ VerifiedMinted
    /\ minted[gateway.token].record.scope = "siac.user.read"
    /\ gateway.result.outcome = "return"

\* Login without authorize

\* the code a successful login put into its redirect
LoginCode == loginResp.location.query[3]

\* C35: POST /oauth/login issues a code exactly when authenticate_user
\* accepts the credentials, whatever response_type the form carries and
\* without GET /oauth/authorize having been called.
C35_LoginIssuesCode ==
    loginResp # NoDict =>
        LET req == loginResp.request IN
        IF authenticate_user(users, req.email, req.password) # NoDict
        THEN /\ loginResp.status = 302
             /\ LoginCode \in DOMAIN issued
             /\ issued[LoginCode].redirect_uri = req.redirect_uri
             /\ issued[LoginCode].scope = req.scope
        ELSE loginResp.status = 303

\* a code was issued for a form with response_type=token, which GET
\* /oauth/authorize answers 400, and the login page was never opened
C35_Witness ==
    /\ loginResp # NoDict
    /\ loginResp.status = 302
    /\ loginResp.request.response_type = "token"
    /\ LoginCode \in DOMAIN authorization_codes
    /\ browser.pc = "START"
    /\ authorize(QueryOf(
           [response_type |-> "token", client_id |-> loginResp.request.client_id,
            redirect_uri |-> loginResp.request.redirect_uri, scope |-> None,
            state |-> NoStr, code_challenge |-> NoStr,
            code_challenge_method |-> NoStr])).status = 400

\* Users of stored codes and tokens

\* C36: every stored code and every stored token names an existing user, so
\* no exchange is answered 500 and get_token_info returns a record for every
\* stored token that has not expired.
C36_StoredUsersExist ==
    /\ \A c \in DOMAIN authorization_codes :
          authorization_codes[c].user_id \in DOMAIN users
    /\ \A tok \in DOMAIN active_tokens :
          active_tokens[tok].user_id \in DOMAIN users
    /\ \A r \in Reqs :
          /\ (tokenReq[r].pc = "exchange") =>
                tokenReq[r].call.result.user_id \in DOMAIN users
          /\ (tokenReq[r].pc = "done") => tokenReq[r].resp.status # 500
    /\ (lastInfo # NoDict /\ lastInfo.stored
           /\ lastInfo.at <= minted[lastInfo.token].record.expires_at) =>
          /\ lastInfo.result # NoDict
          /\ lastInfo.result.user.user_id = minted[lastInfo.token].record.user_id

\* a code was exchanged and get_token_info returned the record of the
\* stored token
C36_Witness ==
    /\ \E r \in Reqs : tokenReq[r].pc = "done" /\ tokenReq[r].resp.status = 200
                        /\ tokenReq[r].call # NoDict
    /\ active_tokens # EmptyMap
    /\ lastInfo # NoDict /\ lastInfo.stored /\ lastInfo.result # NoDict

\* Grant Store operations are per key

\* every code other than k is stored as before, and so is every token
CodeFrame(k) ==
    /\ active_tokens' = active_tokens
    /\ DOMAIN authorization_codes' \ {k} = DOMAIN authorization_codes \ {k}
    /\ \A c \in DOMAIN authorization_codes \ {k} :
          authorization_codes'[c] = authorization_codes[c]
\* every token other than k is stored as before, and so is every code
TokenFrame(k) ==
    /\ authorization_codes' = authorization_codes
    /\ DOMAIN active_tokens' \ {k} = DOMAIN active_tokens \ {k}
    /\ \A tok \in DOMAIN active_tokens \ {k} :
          active_tokens'[tok] = active_tokens[tok]

\* C37: each of store_authorization_code, get_authorization_code,
\* store_token, get_token_info and revoke_token on key k leaves every other
\* code and token as stored; code operations leave the token store alone and
\* token operations the code store.
C37_PerKey ==
    [][/\ \A c \in StoreCodes :
             /\ (\E u \in DOMAIN users : StoreAuthorizationCode(c, u)) => CodeFrame(c)
             /\ GetAuthorizationCode(c) => CodeFrame(c)
       /\ \A tok \in StoreTokens :
             /\ (\E u \in DOMAIN users : StoreToken(tok, u)) => TokenFrame(tok)
             /\ GetTokenInfo(tok) => TokenFrame(tok)
             /\ Revoke(tok) => TokenFrame(tok)]_vars

\* two codes and two tokens are stored, each pair at different times: the
\* later store operation, and the clock, left the earlier record in place;
\* one token has expired and the other not
C37_Witness ==
    /\ DOMAIN authorization_codes = StoreCodes
    /\ authorization_codes[AuthCodeName(1)].created_at
          # authorization_codes[AuthCodeName(2)].created_at
    /\ DOMAIN active_tokens = StoreTokens
    /\ now > active_tokens[AccessTokenName(1)].expires_at
    /\ ~(now > active_tokens[AccessTokenName(2)].expires_at)

\* The revocation endpoint

\* C38: POST /oauth/revoke answers with success and leaves the token store
\* as it is; a stored token that has not expired is still returned by
\* get_token_info, and reported active, after it was sent to the endpoint.
C38_RevokeEndpointKeepsTokens ==
    /\ lastRevoke # NoDict =>
          /\ lastRevoke.response.status = 200
          /\ lastRevoke.response.message = "Token revocado exitosamente"
          /\ lastRevoke.after = lastRevoke.before
    /\ (lastInfo # NoDict /\ lastInfo.revokedBefore /\ lastInfo.stored
           /\ lastInfo.at <= minted[lastInfo.token].record.expires_at) =>
          /\ lastInfo.result # NoDict
          /\ lastInfo.status = 200
          /\ lastInfo.token \in DOMAIN active_tokens

\* a stored token was sent to POST /oauth/revoke twice and get_token_info
\* then returned its record
C38_Witness ==
    /\ lastRevoke # NoDict
    /\ lastRevoke.again
    /\ lastRevoke.token \in DOMAIN lastRevoke.before
    /\ lastInfo # NoDict
    /\ lastInfo.token = lastRevoke.token
    /\ lastInfo.revokedBefore
    /\ lastInfo.result # NoDict

\* Tools outside the protected set

\* call_tool was called for a name other than the two protected tools
UnprotectedCall ==
    /\ gateway # NoDict
    /\ gateway.op = "call_tool"
    /\ gateway.name \notin {"siac.register_template", "siac.send_broadcast"}

====
